---- MODULE Spec2Model ----
(***************************************************************************)
(* Model of the diverse-subset selection path of the Jina MCP server:      *)
(* the deduplicate_strings / deduplicate_images tool handlers              *)
(* (src/src/index.ts) and the Selector they call                           *)
(* (utils/submodular-optimization.js, modelled from spec.md sections 3-8). *)
(*                                                                         *)
(* Similarities are cosine similarities scaled by SimScale; the vector     *)
(* pool only holds vectors of integer norm, so every similarity and every  *)
(* gain is an exact integer (no floating-point rounding is modelled).      *)
(***************************************************************************)
EXTENDS Integers, Sequences, FiniteSets, TLC

\* ------------------------------------------------------------------ bounds
MaxN == 3
MaxRequests == 3
MaxFilterLen == 1
MaxItems == 3
MaxQueries == 6
MaxSearches == 2
MaxDuration == 3
MaxEntries == 3

\* --------------------------------------------------------------- constants
SimScale == 100
SatNum == 1
SatDen == 10

\* The optional argument k is a sequence: empty when k is undefined, << x >>
\* for the integer x, << x, 1 >> for the non-integer number x + 1/2 (the tool
\* schema is z.number(), so k need not be an integer).
NoK == << >>

IsIntegerK(kk) == Len(kk) = 1
\* k <= 0
KLeqZero(kk) == kk[1] < 0 \/ (kk[1] = 0 /\ IsIntegerK(kk))
\* k < 1
KLessOne(kk) == kk[1] < 1
\* k > len
KGreater(kk, len) == kk[1] > len \/ (kk[1] = len /\ ~IsIntegerK(kk))
\* The number of iterations of a loop that runs while count < k.
KCeil(kk) == IF IsIntegerK(kk) THEN kk[1] ELSE kk[1] + 1
\* Stand-in for -infinity: below every similarity.
NegInf == 0 - SimScale * SimScale

\* Stand-in for a non-finite component (NaN, Infinity).
NonFinite == SimScale * SimScale + 1

\* Embedding vectors the embeddings service may return.
VectorPool ==
  { <<1, 0>>, <<0, 1>>, <<-1, 0>>, <<3, 4>>, <<2, 0>>, <<0, 0>>, <<1, 0, 0>>,
    <<NonFinite, 0>> }

Tools == {"deduplicate_strings", "deduplicate_images"}
BestInitChoices == {0, NegInf}
KChoices ==
  {NoK} \cup { << x >> : x \in 0 .. MaxN + 1 }
        \cup { << x, 1 >> : x \in 0 .. MaxN }

VARIABLES
  tool,          \* which handler is running
  tokenOk,       \* props.bearerToken is present
  n,             \* strings.length / images.length
  k,             \* the optional k argument (NoK when absent)
  bestInit,      \* initial value of bestSimSoFar chosen by the Selector build
  pc,            \* position of the handler
  embeddings,    \* data.data.map(item => item.embedding)
  selected,      \* Selector: picks so far, in pick order (0-based indices)
  queue,         \* Selector: priority entries [idx, bound], best first
  bestSimSoFar,  \* Selector: per item, best similarity to a selected item
  gains,         \* Selector: marginal gain recorded at each pick
  recomputes,    \* Selector: number of full gain recomputations so far
  apiStatus,     \* outcome of the embeddings request ("none" before it)
  selectedIndices, \* handler: the indices the Selector returned
  values,        \* handler: the gains the Selector returned ([] with fixed k)
  selectedImages, \* deduplicate_images: [index, source] of each selected image
  thrown,        \* error caught by the handler's catch block (NoError if none)
  response,      \* what the handler returned (NoResponse until it returns)
  url,           \* fetch: the four filter parameters of the request's URL
  enabledTools,  \* fetch: what parseToolFilter returned (null or << set >>)
  fetchPc,       \* fetch: "idle", "called", "threw", "created" or "reused"
  serverCache,   \* module state: the servers created so far, by cache key
  server,        \* fetch: the tools of the server that handles the request
  requests,      \* number of requests handled so far
  clientName,    \* guardrail: the MCP client's name (undefined if unknown)
  toolResponse,  \* guardrail: the response handed to applyTokenGuardrail
  guardPc,       \* guardrail: "idle", "called", "counting" or "returned"
  keptItems,     \* guardrail loop: the text items kept so far
  totalTokens,   \* guardrail loop: their token total
  counted,       \* guardrail: what each countTokens call returned, in order
  guarded,       \* guardrail: the response applyTokenGuardrail returned
  toolCall,          \* a tool call: the family, its items and what fails
  singletonResponse, \* what the singleton tool answers to the call
  parallelResponse,  \* what the parallel_* tool answers to the same call
  parSearches,   \* executeParallelSearches: how each search behaves
  parTimeout,    \* executeParallelSearches: options.timeout
  now,           \* time since the call, in units of the shortest search
  settled,       \* what each search promise settled with (<< >> if pending)
  timer,         \* the setTimeout of the call: its state and when it is due
  allValues,     \* Promise.all: the value it has for each search (<< >> while
                 \* it waits for the value's then to call back)
  parPc,         \* "idle", "waiting" (allSettled), "race", "returned", "threw"
  completedResults, \* what executeParallelSearches returned or threw
  endedAt,       \* when it returned or threw (<< >> until then)
  currentProps,  \* module state: the props of the latest request
  envKey,        \* env.JINA_API_KEY (undefined if not configured)
  inflight,      \* the requests in flight: header, position, props, answer
  entries,       \* deduplicateResults: its argument, the combined results
  bibIdx,        \* deduplicateResults: position of the loop in entries
  seen,          \* deduplicateResults: Map key -> entry, in insertion order
  seenDois,      \* deduplicateResults: Map normalized doi -> key
  seenArxiv,     \* deduplicateResults: Map arXiv id without version -> key
  mergedInto,    \* per entry handled: the input position of the entry it
                 \* was merged into (its own position if it was stored)
  bibPc,         \* "idle", "loop", "threw" or "done"
  deduplicated   \* what deduplicateResults returned

vars == << tool, tokenOk, n, k, bestInit, pc, embeddings, selected, queue,
           bestSimSoFar, gains, recomputes, apiStatus, selectedIndices,
           values, thrown, response, url, enabledTools, fetchPc, serverCache,
           server, requests, clientName, toolResponse, guardPc, keptItems,
           totalTokens, counted, guarded, toolCall, singletonResponse,
           parallelResponse, parSearches, parTimeout, now, settled, timer,
           allValues, parPc, completedResults, endedAt, currentProps, envKey, inflight, entries,
           bibIdx, seen, seenDois, seenArxiv, mergedInto, bibPc,
           deduplicated >>

\* An error message: its fixed text and the values interpolated into it.
NoError == [text |-> "", args |-> << >>]

NoResponse == [isError |-> FALSE, content |-> << >>, returned |-> FALSE]

\* ------------------------------------------------------------ arithmetic
Max(a, b) == IF a >= b THEN a ELSE b

RECURSIVE SumFrom(_, _)
SumFrom(s, i) == IF i > Len(s) THEN 0 ELSE s[i] + SumFrom(s, i + 1)

\* The sum of the elements of s (s is evaluated once).
SumSeq(s) == CHOOSE r \in { SumFrom(t, 1) : t \in {s} } : TRUE

Dim(v) == Len(v)

Dot(a, b) == SumSeq([i \in 1 .. Len(a) |-> a[i] * b[i]])

\* Math.sqrt on the sum of squares (exact on the pool).
Norm(v) ==
  LET ss == Dot(v, v)
  IN  CHOOSE r \in 0 .. ss : r * r <= ss /\ (r + 1) * (r + 1) > ss

\* Cosine similarity, scaled by SimScale.
similarity(a, b) == (Dot(a, b) * SimScale) \div (Norm(a) * Norm(b))

Indices(emb) == 0 .. (Len(emb) - 1)

Sim(emb, i, j) == similarity(emb[i + 1], emb[j + 1])

\* Raw total similarity of candidate c to all items (self included).
RawTotal(emb, c) == SumSeq([i \in 1 .. Len(emb) |-> Sim(emb, i - 1, c)])

\* Marginal gain of candidate c given the running bestSimSoFar buffer.
MarginalGain(emb, best, c) ==
  SumSeq([i \in 1 .. Len(emb) |->
            IF best[i - 1] = NegInf
              THEN Sim(emb, i - 1, c)
              ELSE Max(0, Sim(emb, i - 1, c) - best[i - 1])])

\* bestSimSoFar(i) = max(bestSimSoFar(i), similarity(i, c*)).
UpdateBest(emb, best, c) ==
  [i \in Indices(emb) |->
     IF best[i] = NegInf THEN Sim(emb, i, c) ELSE Max(best[i], Sim(emb, i, c))]

\* ---------------------------------------------------------- priority queue
\* Entry a is served before entry b: larger bound, ties to the smaller index.
Before(a, b) == a.bound > b.bound \/ (a.bound = b.bound /\ a.idx < b.idx)

RECURSIVE PushEntry(_, _)
PushEntry(q, e) ==
  IF q = << >> THEN << e >>
  ELSE IF Before(e, Head(q)) THEN << e >> \o q
  ELSE << Head(q) >> \o PushEntry(Tail(q), e)

RECURSIVE BuildQueue(_, _)
BuildQueue(emb, c) ==
  IF c < 0 THEN << >>
  ELSE PushEntry(BuildQueue(emb, c - 1), [idx |-> c, bound |-> RawTotal(emb, c)])

InitialQueue(emb) == BuildQueue(emb, Len(emb) - 1)

\* ------------------------------------------------------ Selector validation
SameDimension(emb) == \A i, j \in 1 .. Len(emb) : Dim(emb[i]) = Dim(emb[j])
NonZeroNorm(emb) == \A i \in 1 .. Len(emb) : Dot(emb[i], emb[i]) > 0
AllFinite(emb) ==
  \A i \in 1 .. Len(emb) : \A j \in 1 .. Len(emb[i]) : emb[i][j] # NonFinite

FixedK == "lazyGreedySelection"
AutoK == "lazyGreedySelectionWithSaturation"

\* An error and its message: the text and the values written into it.
Message(t) == [text |-> t, args |-> << >>]

\* spec 4.5: k supplied outside [1, n] fails with InvalidInput, and the
\* message states the valid range.
OutOfRange(kk, len) ==
  [text |-> "InvalidInput", args |-> << kk, 1, len >>]

\* The errors spec 4.1 and 4.5 give a call on these vectors: InvalidInput for
\* an empty input (before anything else) and for a k outside [1, n];
\* InvalidInput (4.5) or NumericError (4.1) for vectors of unequal dimension;
\* NumericError for a zero-norm vector or a non-finite component.  The spec
\* fixes no order among the checks of a non-empty input: when several apply,
\* the call fails with any one of them.  No error: the empty set.
SelectorErrors(emb, call) ==
  IF Len(emb) = 0 THEN {Message("InvalidInput")}
  ELSE
    (IF call.fn = FixedK
          /\ (KLessOne(call.k) \/ KGreater(call.k, Len(emb)))
       THEN {OutOfRange(call.k, Len(emb))} ELSE {})
    \cup (IF ~SameDimension(emb)
            THEN {Message("InvalidInput"), Message("NumericError")} ELSE {})
    \cup (IF ~NonZeroNorm(emb) \/ ~AllFinite(emb)
            THEN {Message("NumericError")} ELSE {})

\* spec 4.2: bestSimSoFar(i) starts at the initial value for every item.
FreshBest(emb, init) == [i \in Indices(emb) |-> init]

\* Slip: the unconditional stop at n picks is left out.
SaturatedNoCap(emb, g) ==
  /\ Len(g) >= 2
  /\ g[Len(g)] * SatDen < g[1] * SatNum

\* Saturation Detector: stop once the last gain fell under SatNum/SatDen of
\* the first gain, or unconditionally at n picks.
Saturated(emb, g) ==
  \/ Len(g) >= Len(emb)
  \/ /\ Len(g) >= 2
     /\ g[Len(g)] * SatDen < g[1] * SatNum

\* Fixed k: k picks were made.  Automatic: the detector said stop.
SelectionComplete(emb, call, sel, g) ==
  IF call.fn = FixedK THEN Len(sel) >= KCeil(call.k)
  ELSE Len(sel) >= 1 /\ Saturated(emb, g)

\* Slip: the k branch is never taken.
SelectorCallIgnoresK(kk) == [fn |-> AutoK, k |-> NoK]

\* Slip: k is passed off by one.
SelectorCallOffByOne(kk) ==
  IF kk # NoK THEN [fn |-> FixedK, k |-> [kk EXCEPT ![1] = @ + 1]]
  ELSE [fn |-> AutoK, k |-> NoK]

\* The handler's call: lazyGreedySelection(embeddings, k) when k is given,
\* lazyGreedySelectionWithSaturation(embeddings) otherwise.
SelectorCall(kk) ==
  IF kk # NoK THEN [fn |-> FixedK, k |-> kk] ELSE [fn |-> AutoK, k |-> NoK]

\* Slip: values = [] in both branches.
HandlerValuesEmpty(kk, g) == << >>

\* The handler's view of the result: values = [] with a fixed k,
\* result.values otherwise.
HandlerValues(kk, g) == IF kk # NoK THEN << >> ELSE g

\* --------------------------------------------------------------- responses
\* Slip: the error flag is left out.
createErrorResponseNoFlag(message) ==
  [isError |-> FALSE, content |-> << [type |-> "text", text |-> message] >>,
   returned |-> TRUE]

createErrorResponse(message) ==
  [isError |-> TRUE, content |-> << [type |-> "text", text |-> message] >>,
   returned |-> TRUE]

checkBearerToken(ok) ==
  IF ok THEN NoResponse
  ELSE createErrorResponse(Message("bearer token required"))

handleApiError(context) == createErrorResponse(Message(context))

ApiContext(t) ==
  IF t = "deduplicate_strings" THEN "Getting embeddings"
  ELSE "Getting image embeddings"

EmptyInputMessage(t) ==
  IF t = "deduplicate_strings"
    THEN Message("No strings provided for deduplication")
    ELSE Message("No images provided for deduplication")

\* `Invalid k value: ${k}. Must be between 1 and ${strings.length}`
InvalidKMessage(kk, len) ==
  [text |-> "Invalid k value: $1. Must be between $2 and $3",
   args |-> << kk, 1, len >>]

\* k !== undefined && (k <= 0 || k > strings.length)
InvalidK(kk, len) == kk # NoK /\ (KLeqZero(kk) \/ KGreater(kk, len))

\* ------------------------------------------------------- string primitives
Char(s, i) == SubSeq(s, i, i)

\* Position of the first occurrence of the character c in s, 0 if none.
RECURSIVE IndexFrom(_, _, _)
IndexFrom(s, c, i) ==
  IF i > Len(s) THEN 0
  ELSE IF Char(s, i) = c THEN i
  ELSE IndexFrom(s, c, i + 1)

IndexOf(s, c) == IndexFrom(s, c, 1)

Chars(s) == {Char(s, i) : i \in 1 .. Len(s)}

\* The case tables of Unicode 17, on the characters a string written here can
\* hold: the code units below U+0100 and those whose low byte is 80 or more
\* (hexadecimal), the grave accent left out.  Character i of UpperCase has
\* character i of LowerCase as its lower case.  U+0130, the one letter whose
\* lower case has two code units, is outside the range.
UpperCase == "ABCDEFGHIJKLMNOPQRSTUVWXYZÀÁÂÃÄÅÆÇÈÉÊËÌÍÎÏÐÑÒÓÔÕÖØÙÚÛÜÝÞƂƄƇƋƎƑƘƠƢƤƦƧƩƬƮƯƱƲƳƵƷƸƼǄǅǇǈǊǋǍǏǑǓǕǗǙǛǞǠǢǤǦǨǪǬǮǱǲǴǶǷǸǺǼǾΆΈΉΊΌΎΏΑΒΓΔΕΖΗΘΙΚΛΜΝΞΟΠΡΤΥΦΧΨΩΪΫϏϘϚϜϞϠϢϤϦϨϪϬϮϴϷϹϺҀҊҌҎҐҒҔҖҘҚҜҞҠҢҤҦҨҪҬҮҰҲҴҶҸҺҼҾӀӁӃӅӇӉӋӍӐӒӔӖӘӚӜӞӠӢӤӦӨӪӬӮӰӲӴӶӸӺӼӾᎰᎱᎲᎳᎴᎵᎶᎷᎸᎹᎺᎻᎼᎽᎾᎿᏀᏁᏂᏃᏄᏅᏆᏇᏈᏉᏊᏋᏌᏍᏎᏏᏐᏑᏒᏓᏔᏕᏖᏗᏘᏙᏚᏛᏜᏝᏞᏟᏠᏡᏢᏣᏤᏥᏦᏧᏨᏩᏪᏫᏬᏭᏮᏯᏰᏱᏲᏳᏴᏵᲉᲐᲑᲒᲓᲔᲕᲖᲗᲘᲙᲚᲛᲜᲝᲞᲟᲠᲡᲢᲣᲤᲥᲦᲧᲨᲩᲪᲫᲬᲭᲮᲯᲰᲱᲲᲳᲴᲵᲶᲷᲸᲹᲺᲽᲾᲿẀẂẄẆẈẊẌẎẐẒẔẞẠẢẤẦẨẪẬẮẰẲẴẶẸẺẼẾỀỂỄỆỈỊỌỎỐỒỔỖỘỚỜỞỠỢỤỦỨỪỬỮỰỲỴỶỸỺỼỾᾈᾉᾊᾋᾌᾍᾎᾏᾘᾙᾚᾛᾜᾝᾞᾟᾨᾩᾪᾫᾬᾭᾮᾯᾸᾹᾼῌῘῙῨῩῬῼↃⒶⒷⒸⒹⒺⒻⒼⒽⒾⒿⓀⓁⓂⓃⓄⓅⓆⓇⓈⓉⓊⓋⓌⓍⓎⓏⲀⲂⲄⲆⲈⲊⲌⲎⲐⲒⲔⲖⲘⲚⲜⲞⲠⲢⲤⲦⲨⲪⲬⲮⲰⲲⲴⲶⲸⲺⲼⲾⳀⳂⳄⳆⳈⳊⳌⳎⳐⳒⳔⳖⳘⳚⳜⳞⳠⳢⳫⳭⳲꚀꚂꚄꚆꚈꚊꚌꚎꚐꚒꚔꚖꚘꚚꞀꞂꞄꞆꞋꞐꞒꞖꞘꞚꞜꞞꞠꞢꞤꞦꞨꞰꞱꞲꞴꞶꞸꞺꞼꞾꟀꟂꟄꟅꟆꟇꟉꟌ꟎Ꟑ꟒꟔ꟖꟘꟚꟜꟵ"
LowerCase == "abcdefghijklmnopqrstuvwxyzàáâãäåæçèéêëìíîïðñòóôõöøùúûüýþƃƅƈƌǝƒƙơƣƥʀƨʃƭʈưʊʋƴƶʒƹƽǆǆǉǉǌǌǎǐǒǔǖǘǚǜǟǡǣǥǧǩǫǭǯǳǳǵƕƿǹǻǽǿάέήίόύώαβγδεζηθικλμνξοπρτυφχψωϊϋϗϙϛϝϟϡϣϥϧϩϫϭϯθϸϲϻҁҋҍҏґғҕҗҙқҝҟҡңҥҧҩҫҭүұҳҵҷҹһҽҿӏӂӄӆӈӊӌӎӑӓӕӗәӛӝӟӡӣӥӧөӫӭӯӱӳӵӷӹӻӽӿꮀꮁꮂꮃꮄꮅꮆꮇꮈꮉꮊꮋꮌꮍꮎꮏꮐꮑꮒꮓꮔꮕꮖꮗꮘꮙꮚꮛꮜꮝꮞꮟꮠꮡꮢꮣꮤꮥꮦꮧꮨꮩꮪꮫꮬꮭꮮꮯꮰꮱꮲꮳꮴꮵꮶꮷꮸꮹꮺꮻꮼꮽꮾꮿᏸᏹᏺᏻᏼᏽᲊაბგდევზთიკლმნოპჟრსტუფქღყშჩცძწჭხჯჰჱჲჳჴჵჶჷჸჹჺჽჾჿẁẃẅẇẉẋẍẏẑẓẕßạảấầẩẫậắằẳẵặẹẻẽếềểễệỉịọỏốồổỗộớờởỡợụủứừửữựỳỵỷỹỻỽỿᾀᾁᾂᾃᾄᾅᾆᾇᾐᾑᾒᾓᾔᾕᾖᾗᾠᾡᾢᾣᾤᾥᾦᾧᾰᾱᾳῃῐῑῠῡῥῳↄⓐⓑⓒⓓⓔⓕⓖⓗⓘⓙⓚⓛⓜⓝⓞⓟⓠⓡⓢⓣⓤⓥⓦⓧⓨⓩⲁⲃⲅⲇⲉⲋⲍⲏⲑⲓⲕⲗⲙⲛⲝⲟⲡⲣⲥⲧⲩⲫⲭⲯⲱⲳⲵⲷⲹⲻⲽⲿⳁⳃⳅⳇⳉⳋⳍⳏⳑⳓⳕⳗⳙⳛⳝⳟⳡⳣⳬⳮⳳꚁꚃꚅꚇꚉꚋꚍꚏꚑꚓꚕꚗꚙꚛꞁꞃꞅꞇꞌꞑꞓꞗꞙꞛꞝꞟꞡꞣꞥꞧꞩʞʇʝꞵꞷꞹꞻꞽꞿꟁꟃꞔʂᶎꟈꟊꟍ꟏ꟑꟓꟕꟗꟙꟛƛꟶ"

\* The ninety-four letters of that range (U+0181 among them) whose lower
\* case is outside it.  No string here can hold their lower case:
\* toLowerCase has no value on a string that holds one of them.
LowerCaseOutOfRange == "ƁƆƉƊƏƐƓƔƖƗƜƝƟϽϾϿႠႡႢႣႤႥႦႧႨႩႪႫႬႭႮႯႰႱႲႳႴႵႶႷႸႹႺႻႼႽႾႿჀჁჂჃჄჅჇჍᎠᎡᎢᎣᎤᎥᎦᎧᎨᎩᎪᎫᎬᎭᎮᎯᾺΆῈΈῊΉῚΊῪΎῸΌῺΏꞍꞪꞫꞬꞭꞮꞳꟋ"

\* The cased letters that are not case-ignorable, and the case-ignorable
\* characters (Unicode 17, chapter 3.13), on the same range.
CasedLetters == "ABCDEFGHIJKLMNOPQRSTUVWXYZabcdefghijklmnopqrstuvwxyzªµºÀÁÂÃÄÅÆÇÈÉÊËÌÍÎÏÐÑÒÓÔÕÖØÙÚÛÜÝÞßàáâãäåæçèéêëìíîïðñòóôõöøùúûüýþÿƀƁƂƃƄƅƆƇƈƉƊƋƌƍƎƏƐƑƒƓƔƕƖƗƘƙƚƛƜƝƞƟƠơƢƣƤƥƦƧƨƩƪƫƬƭƮƯưƱƲƳƴƵƶƷƸƹƺƼƽƾƿǄǅǆǇǈǉǊǋǌǍǎǏǐǑǒǓǔǕǖǗǘǙǚǛǜǝǞǟǠǡǢǣǤǥǦǧǨǩǪǫǬǭǮǯǰǱǲǳǴǵǶǷǸǹǺǻǼǽǾǿʀʁʂʃʄʅʆʇʈʉʊʋʌʍʎʏʐʑʒʓʖʗʘʙʚʛʜʝʞʟʠʡʢʣʤʥʦʧʨʩʪʫʬʭʮʯΆΈΉΊΌΎΏΐΑΒΓΔΕΖΗΘΙΚΛΜΝΞΟΠΡΣΤΥΦΧΨΩΪΫάέήίΰαβγδεζηθικλμνξοπρςστυφχψωϊϋόύώϏϐϑϒϓϔϕϖϗϘϙϚϛϜϝϞϟϠϡϢϣϤϥϦϧϨϩϪϫϬϭϮϯϰϱϲϳϴϵϷϸϹϺϻϼϽϾϿҀҁҊҋҌҍҎҏҐґҒғҔҕҖҗҘҙҚқҜҝҞҟҠҡҢңҤҥҦҧҨҩҪҫҬҭҮүҰұҲҳҴҵҶҷҸҹҺһҼҽҾҿӀӁӂӃӄӅӆӇӈӉӊӋӌӍӎӏӐӑӒӓӔӕӖӗӘәӚӛӜӝӞӟӠӡӢӣӤӥӦӧӨөӪӫӬӭӮӯӰӱӲӳӴӵӶӷӸӹӺӻӼӽӾӿրցւփքօֆևֈႠႡႢႣႤႥႦႧႨႩႪႫႬႭႮႯႰႱႲႳႴႵႶႷႸႹႺႻႼႽႾႿჀჁჂჃჄჅჇჍაბგდევზთიკლმნოპჟრსტუფქღყშჩცძწჭხჯჰჱჲჳჴჵჶჷჸჹჺჽჾჿᎠᎡᎢᎣᎤᎥᎦᎧᎨᎩᎪᎫᎬᎭᎮᎯᎰᎱᎲᎳᎴᎵᎶᎷᎸᎹᎺᎻᎼᎽᎾᎿᏀᏁᏂᏃᏄᏅᏆᏇᏈᏉᏊᏋᏌᏍᏎᏏᏐᏑᏒᏓᏔᏕᏖᏗᏘᏙᏚᏛᏜᏝᏞᏟᏠᏡᏢᏣᏤᏥᏦᏧᏨᏩᏪᏫᏬᏭᏮᏯᏰᏱᏲᏳᏴᏵᏸᏹᏺᏻᏼᏽᲀᲁᲂᲃᲄᲅᲆᲇᲈᲉᲊᲐᲑᲒᲓᲔᲕᲖᲗᲘᲙᲚᲛᲜᲝᲞᲟᲠᲡᲢᲣᲤᲥᲦᲧᲨᲩᲪᲫᲬᲭᲮᲯᲰᲱᲲᲳᲴᲵᲶᲷᲸᲹᲺᲽᲾᲿᶀᶁᶂᶃᶄᶅᶆᶇᶈᶉᶊᶋᶌᶍᶎᶏᶐᶑᶒᶓᶔᶕᶖᶗᶘᶙᶚẀẁẂẃẄẅẆẇẈẉẊẋẌẍẎẏẐẑẒẓẔẕẖẗẘẙẚẛẜẝẞẟẠạẢảẤấẦầẨẩẪẫẬậẮắẰằẲẳẴẵẶặẸẹẺẻẼẽẾếỀềỂểỄễỆệỈỉỊịỌọỎỏỐốỒồỔổỖỗỘộỚớỜờỞởỠỡỢợỤụỦủỨứỪừỬửỮữỰựỲỳỴỵỶỷỸỹỺỻỼỽỾỿᾀᾁᾂᾃᾄᾅᾆᾇᾈᾉᾊᾋᾌᾍᾎᾏᾐᾑᾒᾓᾔᾕᾖᾗᾘᾙᾚᾛᾜᾝᾞᾟᾠᾡᾢᾣᾤᾥᾦᾧᾨᾩᾪᾫᾬᾭᾮᾯᾰᾱᾲᾳᾴᾶᾷᾸᾹᾺΆᾼιῂῃῄῆῇῈΈῊΉῌῐῑῒΐῖῗῘῙῚΊῠῡῢΰῤῥῦῧῨῩῪΎῬῲῳῴῶῷῸΌῺΏῼↃↄⒶⒷⒸⒹⒺⒻⒼⒽⒾⒿⓀⓁⓂⓃⓄⓅⓆⓇⓈⓉⓊⓋⓌⓍⓎⓏⓐⓑⓒⓓⓔⓕⓖⓗⓘⓙⓚⓛⓜⓝⓞⓟⓠⓡⓢⓣⓤⓥⓦⓧⓨⓩⲀⲁⲂⲃⲄⲅⲆⲇⲈⲉⲊⲋⲌⲍⲎⲏⲐⲑⲒⲓⲔⲕⲖⲗⲘⲙⲚⲛⲜⲝⲞⲟⲠⲡⲢⲣⲤⲥⲦⲧⲨⲩⲪⲫⲬⲭⲮⲯⲰⲱⲲⲳⲴⲵⲶⲷⲸⲹⲺⲻⲼⲽⲾⲿⳀⳁⳂⳃⳄⳅⳆⳇⳈⳉⳊⳋⳌⳍⳎⳏⳐⳑⳒⳓⳔⳕⳖⳗⳘⳙⳚⳛⳜⳝⳞⳟⳠⳡⳢⳣⳤⳫⳬⳭⳮⳲⳳꚀꚁꚂꚃꚄꚅꚆꚇꚈꚉꚊꚋꚌꚍꚎꚏꚐꚑꚒꚓꚔꚕꚖꚗꚘꚙꚚꚛꞀꞁꞂꞃꞄꞅꞆꞇꞋꞌꞍꞎꞐꞑꞒꞓꞔꞕꞖꞗꞘꞙꞚꞛꞜꞝꞞꞟꞠꞡꞢꞣꞤꞥꞦꞧꞨꞩꞪꞫꞬꞭꞮꞯꞰꞱꞲꞳꞴꞵꞶꞷꞸꞹꞺꞻꞼꞽꞾꞿꟀꟁꟂꟃꟄꟅꟆꟇꟈꟉꟊꟋꟌꟍ꟎꟏Ꟑꟑ꟒ꟓ꟔ꟕꟖꟗꟘꟙꟚꟛꟜꟵꟶꟺꮀꮁꮂꮃꮄꮅꮆꮇꮈꮉꮊꮋꮌꮍꮎꮏꮐꮑꮒꮓꮔꮕꮖꮗꮘꮙꮚꮛꮜꮝꮞꮟꮠꮡꮢꮣꮤꮥꮦꮧꮨꮩꮪꮫꮬꮭꮮꮯꮰꮱꮲꮳꮴꮵꮶꮷꮸꮹꮺꮻꮼꮽꮾꮿ"
CaseIgnorable == "'.:^¨­¯´·¸ʰʱʲʳʴʵʶʷʸʹʺʻʼʽʾʿˀˁ˂˃˄˅ˆˇˈˉˊˋˌˍˎˏːˑ˒˓˔˕˖˗˘˙˚˛˜˝˞˟ˠˡˢˣˤ˥˦˧˨˩˪˫ˬ˭ˮ˯˰˱˲˳˴˵˶˷˸˹˺˻˼˽˾˿΄΅·҃҄҅҆҇҈҉ְֱֲֳִֵֶַָׇֹֺֻּֽֿׁׂ֑֖֛֢֣֤֥֦֧֪ׅ֚֭֮֒֓֔֕֗֘֙֜֝֞֟֠֡֨֩֫֬֯ׄ״ۖۗۘۙۚۛۜ۝ۣ۟۠ۡۢۤۥۦ۪ۭۧۨ۫۬ަާިީުޫެޭޮޯް߲߫߬߭߮߯߰߱߳ߴߵߺ߽࢈࢐࢑࢙࢚࢛ࢗ࢘࢜࢝࢞࢟ࣉ࣏࣐࣑࣒࣓࣊࣋࣌࣍࣎ࣔࣕࣖࣗࣘࣙࣚࣛࣜࣝࣞࣟ࣠࣡࣢ࣰࣱࣲࣣࣦࣩ࣭࣮࣯ࣶࣹࣺࣤࣥࣧࣨ࣪࣫࣬ࣳࣴࣵࣷࣸࣻࣼࣽࣾࣿঁ়ুূৃৄ্ৢৣ৾ઁં઼ુૂૃૄૅેૈ્ૢૣૺૻૼ૽૾૿ஂீ்ಁ಼ಿೆೌ್ೢೣඁ්ිීුූັິີຶື຺ຸູົຼໆ່້໊໋໌ໍ໎྄ཱྀྀྂྃ྆྇ྍྎྏྐྑྒྒྷྔྕྖྗྙྚྛྜྜྷྞྟྠྡྡྷྣྤྥྦྦྷྨྩྪྫྫྷྭྮྯྰྱྲླྴྵྶྷྸྐྵྺྻྼ࿆ႂႅႆႍႝჼ឴឵ិីឹឺុូួំ៉៊់៌៍៎៏័៑្៓ៗ៝ᢅᢆᢩᪧ᪵᪶᪷᪸᪹᪺᪽᪰᪱᪲᪳᪴᪻᪼᪾ᪿᫀ᫃᫄᫊᫁᫂᫅᫆᫇᫈᫉᫋ᫌᫍᫎ᫏᫐᫑᫒᫓᫔᫕᫖᫗᫘᫙᫚᫛᫜᫝᫠᫡᫢᫣᫤᫥᫦᫧᫨᫩᫪᫫ᮀᮁᮢᮣᮤᮥᮨᮩ᮫ᮬᮭ᯦ᯨᯩᯭᯯᯰᯱ᳔᳢᳣᳤᳥᳦᳧᳨᳕᳖᳗᳘᳙᳜᳝᳞᳟᳭᳐᳑᳒᳚᳛᳠᳴᳸᳹ᶛᶜᶝᶞᶟᶠᶡᶢᶣᶤᶥᶦᶧᶨᶩᶪᶫᶬᶭᶮᶯᶰᶱᶲᶳᶴᶵᶶᶷᶸᶹᶺᶻᶼᶽᶾᶿ᷐᷎᷺᷂᷊᷏᷹᷽᷿᷷᷸᷀᷁᷃᷄᷅᷆᷇᷈᷉᷋᷌᷑᷒ᷓᷔᷕᷖᷗᷘᷙᷚᷛᷜᷝᷞᷟᷠᷡᷢᷣᷤᷥᷦᷧᷨᷩᷪᷫᷬᷭᷮᷯᷰᷱᷲᷳᷴ᷵᷻᷾᷶᷼᷍᾽᾿῀῁῍῎῏῝῞῟῭΅`´῾ₐₑₒₓₔₕₖₗₘₙₚₛₜ⃒⃓⃘⃙⃚⃐⃑⃔⃕⃖⃗⃛⃜⃝⃞⃟⃠⃡⃢⃣⃤⃥⃦⃪⃫゙゚⃨⃬⃭⃮⃯⃧⃩⃰⳯⳰⳱ⷠⷡⷢⷣⷤⷥⷦⷧⷨⷩⷪⷫⷬⷭⷮⷯⷰⷱⷲⷳⷴⷵⷶⷷⷸⷹⷺⷻⷼⷽⷾⷿ゛゜ゝゞーヽヾꓸꓹꓺꓻꓼꓽꚜꚝꚞꚟ꛰꛱ꞈ꞉꞊꟱ꟲꟳꟴꟸꟹ꣄ꣅ꣠꣡꣢꣣꣤꣥꣦꣧꣨꣩꣪꣫꣬꣭꣮꣯꣰꣱ꣿꦀꦁꦂ꦳ꦶꦷꦸꦹꦼꦽꧏꧥꧦꪴꪰꪲꪳꪷꪸꪾ꪿꫁ꫝꫬꫭꫳꫴ꫶ꯥꯨ꯭﮲﮳﮴﮵﮶﮷﮸﮹﮺﮻﮼﮽﮾﮿﯀﯁﯂﻿ﾞﾟ￣￹￺￻"

UpperSet == Chars(UpperCase)
LowerOf ==
  [c \in UpperSet |->
     Char(LowerCase, CHOOSE i \in 1 .. Len(UpperCase) : Char(UpperCase, i) = c)]
CasedSet == Chars(CasedLetters)
LowerCaseOutOfRangeSet == Chars(LowerCaseOutOfRange)
CaseIgnorableSet == Chars(CaseIgnorable)

\* Final_Sigma: position i follows a cased letter and does not precede one,
\* case-ignorable characters in between being skipped on either side.
FinalSigma(s, i) ==
  /\ \E j \in 1 .. i - 1 :
       /\ Char(s, j) \in CasedSet
       /\ \A m \in j + 1 .. i - 1 : Char(s, m) \in CaseIgnorableSet
  /\ ~\E j \in i + 1 .. Len(s) :
        /\ Char(s, j) \in CasedSet
        /\ \A m \in i + 1 .. j - 1 : Char(s, m) \in CaseIgnorableSet

\* The lower case of character i of s, where a string can hold it.
LowerAt(s, i) ==
  LET c == Char(s, i)
  IN  CASE c = "Σ" -> (IF FinalSigma(s, i) THEN "ς" ELSE "σ")
        [] c \in UpperSet -> LowerOf[c]
        [] c # "Σ" /\ c \notin UpperSet /\ c \notin LowerCaseOutOfRangeSet -> c

RECURSIVE LowerFrom(_, _)
LowerFrom(s, i) ==
  IF i > Len(s) THEN "" ELSE LowerAt(s, i) \o LowerFrom(s, i + 1)

\* String.prototype.toLowerCase: the lower case of every cased letter, a
\* capital sigma in final position becoming a final sigma.  It has no value
\* on a string that holds a letter of LowerCaseOutOfRange.
toLowerCase(s) == LowerFrom(s, 1)

\* String.prototype.startsWith
startsWith(s, prefix) ==
  Len(s) >= Len(prefix) /\ SubSeq(s, 1, Len(prefix)) = prefix

\* A value that may be missing is << v >>, or undefined.
undefined == << >>

\* `Error: ${error.message}`
ErrorPrefix(m) == [m EXCEPT !.text = << "Error: ", m.text >>]

\* strings[idx] / images[idx]: item idx of the caller's input, identified by
\* its position; reading past the end of the array gives undefined (<< >>).
InputItem(array, idx) == IF idx < n THEN << array, idx >> ELSE << >>

\* Slip: the reported index is 1-based.
StringItemOneBased(idx) ==
  [type |-> "text",
   text |-> [index |-> idx + 1, text |-> InputItem("strings", idx)]]

\* yamlStringify({index: idx, text: strings[idx]}): item idx of the input is
\* identified by its position.
StringItem(idx) ==
  [type |-> "text",
   text |-> [index |-> idx, text |-> InputItem("strings", idx)]]

\* The images a caller may pass: a base64 string and a URL with its scheme
\* in capitals.  The same image may be passed more than once.
ImagePool == {"iVBORw0KGgo", "HTTPS://a"}

\* Character i of str is one of the characters of among ("" past the end).
CharIn(str, i, among) ==
  /\ i <= Len(str)
  /\ \E j \in 1 .. Len(among) : SubSeq(str, i, i) = SubSeq(among, j, j)

\* str continues at position i with "://".
SlashesAt(str, i) ==
  CharIn(str, i, ":") /\ CharIn(str, i + 1, "/") /\ CharIn(str, i + 2, "/")

\* /^https?:\/\//i.test(source); undefined is tested as "undefined".
IsUrl(source) ==
  /\ source # undefined
  /\ CharIn(source[1], 1, "hH")
  /\ CharIn(source[1], 2, "tT")
  /\ CharIn(source[1], 3, "tT")
  /\ CharIn(source[1], 4, "pP")
  /\ \/ SlashesAt(source[1], 5)
     \/ CharIn(source[1], 5, "sS") /\ SlashesAt(source[1], 6)

\* selectedIndices.map((idx) => ({ index: idx, source: images[idx] })) for
\* the array imgs; images[idx] is undefined past the end of the array.
Selected(sel, imgs) ==
  [t \in 1 .. Len(sel) |->
     [index |-> sel[t],
      source |-> IF sel[t] < Len(imgs) THEN << imgs[sel[t] + 1] >>
                 ELSE undefined]]

IsUrlImage(image) == IsUrl(image.source)
IsBase64Image(image) == ~IsUrl(image.source)

\* The sources of the selected images that are URLs, in selection order.
urlsToDownload ==
  LET chosen == SelectSeq(selectedImages, IsUrlImage)
  IN  [i \in 1 .. Len(chosen) |-> chosen[i].source]

\* The sources of the selected images that are no URLs, in selection order.
base64Images ==
  LET chosen == SelectSeq(selectedImages, IsBase64Image)
  IN  [i \in 1 .. Len(chosen) |-> chosen[i].source]

\* What downloadImages(urls, 3, 15000) may resolve with: an array of
\* results, each a success with data or a failure.  Its code is not part of
\* this repository; it is taken to return at most one result per URL, and
\* may return fewer.
DownloadResults(urls) ==
  UNION { [1 .. len -> {"ok", "fail"}] : len \in 0 .. Len(urls) }

\* selectedImages.find(({ source }) => source === wanted): the first selected
\* image with that source, or undefined.
find(wanted) ==
  LET hits == {t \in 1 .. Len(selectedImages) :
                 selectedImages[t].source = wanted}
  IN  IF hits = {} THEN undefined
      ELSE << selectedImages[CHOOSE t \in hits : \A u \in hits : t <= u] >>

\* `${selectedImage?.index || i}`: a missing image and index 0 fall back to i.
ReportedIndex(selectedImage, i) ==
  IF selectedImage # undefined /\ selectedImage[1].index # 0
    THEN selectedImage[1].index
    ELSE i

\* Content item i (from 0) of the download loop: the result's data, or the
\* failure text with the index of the image found by its URL.
DownloadItem(urls, results, i) ==
  IF results[i + 1] = "ok"
    THEN [type |-> "image", data |-> << "downloadResults", i >>]
    ELSE [type |-> "text",
          text |-> [failedIndex |-> ReportedIndex(find(urls[i + 1]), i)]]

Base64Item(source) == [type |-> "image", data |-> source]

\* contentItems: one item per download result, then the base64 images.
ImageContent(urls, base64, results) ==
  [p \in 1 .. Len(results) |-> DownloadItem(urls, results, p - 1)]
    \o [j \in 1 .. Len(base64) |-> Base64Item(base64[j])]

\* --------------------------------------------------------------------- Init
EmbeddingSeqs(len) == [1 .. len -> VectorPool]

\* A handler's state before it has done anything.
HandlerState ==
  /\ embeddings = << >>
  /\ selected = << >>
  /\ queue = << >>
  /\ bestSimSoFar = << >>
  /\ gains = << >>
  /\ recomputes = 0
  /\ apiStatus = "none"
  /\ selectedIndices = << >>
  /\ values = << >>
  /\ selectedImages = << >>
  /\ thrown = NoError
  /\ response = NoResponse

InitHandler ==
  /\ tool \in Tools
  /\ tokenOk \in BOOLEAN
  /\ n \in 0 .. MaxN
  /\ k \in KChoices
  /\ bestInit \in BestInitChoices
  /\ pc = "start"
  /\ HandlerState

\* No deduplication tool is called.
HandlerIdle ==
  /\ tool = "deduplicate_strings"
  /\ tokenOk = TRUE
  /\ n = 0
  /\ k = NoK
  /\ bestInit = 0
  /\ pc = "idle"
  /\ HandlerState

\* No request has reached the worker yet.
InitFetch ==
  /\ url = [include_tools |-> << >>, exclude_tools |-> << >>,
            include_tags |-> << >>, exclude_tags |-> << >>]
  /\ enabledTools = << >>
  /\ fetchPc = "idle"
  /\ serverCache = {}
  /\ server = << >>
  /\ requests = 0

\* applyTokenGuardrail has not been called.
GuardrailIdle ==
  /\ clientName = << >>
  /\ toolResponse = [content |-> << >>, isError |-> << >>]
  /\ guardPc = "idle"
  /\ keptItems = << >>
  /\ totalTokens = 0
  /\ counted = << >>
  /\ guarded = [content |-> << >>, isError |-> << >>]

\* No search or read tool is called.
EquivIdle ==
  /\ toolCall = [family |-> "search_web", items |-> << >>, failed |-> {},
                 bearerOk |-> TRUE, readThrows |-> FALSE]
  /\ singletonResponse = NoResponse
  /\ parallelResponse = NoResponse

\* executeParallelSearches is not called.
ParallelIdle ==
  /\ parSearches = << >>
  /\ parTimeout = 0
  /\ now = 0
  /\ settled = << >>
  /\ timer = [state |-> "none", at |-> 0]
  /\ allValues = << >>
  /\ parPc = "idle"
  /\ completedResults = << >>
  /\ endedAt = << >>

\* let currentProps = {}; no request is in flight.
PropsIdle ==
  /\ currentProps = [bearerToken |-> << >>, context |-> 0]
  /\ envKey = << >>
  /\ inflight = << >>

\* deduplicateResults is not called.
BibIdle ==
  /\ entries = << >>
  /\ bibIdx = 0
  /\ seen = << >>
  /\ seenDois = << >>
  /\ seenArxiv = << >>
  /\ mergedInto = << >>
  /\ bibPc = "idle"
  /\ deduplicated = << >>

LaterIdle == ParallelIdle /\ PropsIdle /\ BibIdle

Init ==
  /\ InitHandler
  /\ InitFetch
  /\ GuardrailIdle
  /\ EquivIdle
  /\ LaterIdle

selVars == << selected, queue, bestSimSoFar, gains, recomputes >>
inVars == << tool, tokenOk, n, k, bestInit >>
outVars == << selectedIndices, values, selectedImages >>
fetchVars == << url, enabledTools, fetchPc, serverCache, server, requests >>
handlerVars == << inVars, pc, embeddings, selVars, apiStatus, outVars, thrown,
                  response >>
\* What the deduplication handlers never touch.
guardVars == << clientName, toolResponse, guardPc, keptItems, totalTokens,
               counted, guarded >>
equivVars == << toolCall, singletonResponse, parallelResponse >>
parVars == << parSearches, parTimeout, now, settled, timer, allValues, parPc,
              completedResults, endedAt >>
propsVars == << currentProps, envKey, inflight >>
bibVars == << entries, bibIdx, seen, seenDois, seenArxiv, mergedInto, bibPc,
              deduplicated >>
laterVars == << parVars, propsVars, bibVars >>
otherVars == << fetchVars, guardVars, equivVars, laterVars >>
notFetchVars == << handlerVars, guardVars, equivVars, laterVars >>
notGuardVars == << handlerVars, fetchVars, equivVars, laterVars >>
notEquivVars == << handlerVars, fetchVars, guardVars, laterVars >>

\* ------------------------------------------------------------------ handler
\* checkBearerToken fails: the handler returns the token error.
TokenMissing ==
  /\ pc = "start"
  /\ ~tokenOk
  /\ response' = checkBearerToken(tokenOk)
  /\ pc' = "done"
  /\ UNCHANGED << otherVars, inVars, embeddings, selVars, apiStatus, outVars, thrown >>

\* Input validation throws (caught by the handler's catch block).
ValidateThrows ==
  /\ pc = "start"
  /\ tokenOk
  /\ \/ /\ n = 0
        /\ thrown' = EmptyInputMessage(tool)
     \/ /\ n # 0
        /\ InvalidK(k, n)
        /\ thrown' = InvalidKMessage(k, n)
  /\ pc' = "catch"
  /\ UNCHANGED << otherVars, inVars, embeddings, selVars, apiStatus, outVars, response >>

ValidateOk ==
  /\ pc = "start"
  /\ tokenOk
  /\ n # 0
  /\ ~InvalidK(k, n)
  /\ pc' = "fetch"
  /\ UNCHANGED << otherVars, inVars, embeddings, selVars, apiStatus, outVars, thrown,
                  response >>

\* fetch() rejects (network failure) or response.json() throws.
FetchThrows ==
  /\ pc = "fetch"
  /\ apiStatus' = "rejected"
  /\ thrown' = Message("fetch failed")
  /\ pc' = "catch"
  /\ UNCHANGED << otherVars, inVars, embeddings, selVars, outVars, response >>

\* !response.ok
FetchNotOk ==
  /\ pc = "fetch"
  /\ apiStatus' = "not_ok"
  /\ response' = handleApiError(ApiContext(tool))
  /\ pc' = "done"
  /\ UNCHANGED << otherVars, inVars, embeddings, selVars, outVars, thrown >>

\* !data.data || !Array.isArray(data.data)
FetchMalformed ==
  /\ pc = "fetch"
  /\ apiStatus' = "malformed"
  /\ thrown' = Message("Invalid response format from embeddings API")
  /\ pc' = "catch"
  /\ UNCHANGED << otherVars, inVars, embeddings, selVars, outVars, response >>

\* The service answers with one embedding per input item.
FetchOk ==
  /\ pc = "fetch"
  /\ \E emb \in EmbeddingSeqs(n) : embeddings' = emb
  /\ apiStatus' = "ok"
  /\ pc' = "select"
  /\ UNCHANGED << otherVars, inVars, selVars, outVars, thrown, response >>

\* ----------------------------------------------------------------- Selector
\* lazyGreedySelection(embeddings, k) / lazyGreedySelectionWithSaturation:
\* validation, then the queue is filled with the round-1 bounds.
SelectorThrows ==
  /\ pc = "select"
  /\ \E error \in SelectorErrors(embeddings, SelectorCall(k)) :
       thrown' = error
  /\ pc' = "catch"
  /\ UNCHANGED << otherVars, inVars, embeddings, selVars, apiStatus, outVars, response >>

SelectorStart ==
  /\ pc = "select"
  /\ SelectorErrors(embeddings, SelectorCall(k)) = {}
  /\ selected' = << >>
  /\ gains' = << >>
  /\ queue' = InitialQueue(embeddings)
  /\ bestSimSoFar' = FreshBest(embeddings, bestInit)
  /\ recomputes' = 0
  /\ pc' = "loop"
  /\ UNCHANGED << otherVars, inVars, embeddings, apiStatus, outVars, thrown, response >>

\* One scheduler step: pop the top entry and recompute its gain.
PoppedGain == MarginalGain(embeddings, bestSimSoFar, Head(queue).idx)

Acceptable ==
  IF Len(queue) = 1 THEN TRUE ELSE PoppedGain >= queue[2].bound

\* Step 3: the recomputed gain is still >= the next cached bound: accept.
SelectorAccept ==
  /\ pc = "loop"
  /\ ~SelectionComplete(embeddings, SelectorCall(k), selected, gains)
  /\ queue # << >>
  /\ Acceptable
  /\ selected' = Append(selected, Head(queue).idx)
  /\ gains' = Append(gains, PoppedGain)
  /\ bestSimSoFar' = UpdateBest(embeddings, bestSimSoFar, Head(queue).idx)
  /\ queue' = Tail(queue)
  /\ recomputes' = recomputes + 1
  /\ UNCHANGED << otherVars, inVars, pc, embeddings, apiStatus, outVars, thrown,
                  response >>

\* Step 4: push it back with the refreshed value as its new bound.
SelectorPushBack ==
  /\ pc = "loop"
  /\ ~SelectionComplete(embeddings, SelectorCall(k), selected, gains)
  /\ queue # << >>
  /\ ~Acceptable
  /\ queue' = PushEntry(Tail(queue),
                        [idx |-> Head(queue).idx, bound |-> PoppedGain])
  /\ recomputes' = recomputes + 1
  /\ UNCHANGED << otherVars, inVars, pc, embeddings, selected, bestSimSoFar, gains,
                  apiStatus, outVars, thrown, response >>

\* The Selector returns its result to the handler.
SelectorReturn ==
  /\ pc = "loop"
  /\ SelectionComplete(embeddings, SelectorCall(k), selected, gains)
  /\ selectedIndices' = selected
  /\ values' = HandlerValues(k, gains)
  /\ pc' = "respond"
  /\ UNCHANGED << otherVars, inVars, embeddings, selVars, apiStatus,
                  selectedImages, thrown, response >>

\* ---------------------------------------------------------------- responses
\* deduplicate_strings: one text item per selected index.
RespondStrings ==
  /\ pc = "respond"
  /\ tool = "deduplicate_strings"
  /\ response' = [isError |-> FALSE,
                  content |-> [t \in 1 .. Len(selectedIndices) |->
                                 StringItem(selectedIndices[t])],
                  returned |-> TRUE]
  /\ pc' = "done"
  /\ UNCHANGED << otherVars, inVars, embeddings, selVars, apiStatus, outVars, thrown >>

\* deduplicate_images: the selected images are looked up in the images
\* argument, whose elements are read here for the first time.
SelectImages ==
  /\ pc = "respond"
  /\ tool = "deduplicate_images"
  /\ \E imgs \in [1 .. n -> ImagePool] :
       selectedImages' = Selected(selectedIndices, imgs)
  /\ pc' = "content"
  /\ UNCHANGED << otherVars, inVars, embeddings, selVars, apiStatus,
                  selectedIndices, values, thrown, response >>

\* deduplicate_images: the download results first, then the base64 images.
RespondImages ==
  /\ pc = "content"
  /\ \E urls \in {urlsToDownload}, base64 \in {base64Images} :
       \E results \in DownloadResults(urls) :
         \E contentItems \in {ImageContent(urls, base64, results)} :
           /\ contentItems # << >>
           /\ response' = [isError |-> FALSE,
                           content |-> contentItems,
                           returned |-> TRUE]
  /\ pc' = "done"
  /\ UNCHANGED << otherVars, inVars, embeddings, selVars, apiStatus, outVars, thrown >>

\* if (contentItems.length === 0) throw: no base64 image was selected and
\* downloadImages resolved with no result.
NoImagesThrows ==
  /\ pc = "content"
  /\ \E results \in DownloadResults(urlsToDownload) :
       ImageContent(urlsToDownload, base64Images, results) = << >>
  /\ thrown' = Message("No images to return after deduplication")
  /\ pc' = "catch"
  /\ UNCHANGED << otherVars, inVars, embeddings, selVars, apiStatus, outVars, response >>

\* await downloadImages(...) rejects.
DownloadRejects ==
  /\ pc = "content"
  /\ urlsToDownload # << >>
  /\ thrown' = Message("download failed")
  /\ pc' = "catch"
  /\ UNCHANGED << otherVars, inVars, embeddings, selVars, apiStatus, outVars, response >>

\* catch (error) { return createErrorResponse(`Error: ${message}`) }
Catch ==
  /\ pc = "catch"
  /\ response' = createErrorResponse(ErrorPrefix(thrown))
  /\ pc' = "done"
  /\ UNCHANGED << otherVars, inVars, embeddings, selVars, apiStatus, outVars, thrown >>

Next ==
  \/ TokenMissing
  \/ ValidateThrows
  \/ ValidateOk
  \/ FetchThrows
  \/ FetchNotOk
  \/ FetchMalformed
  \/ FetchOk
  \/ SelectorThrows
  \/ SelectorStart
  \/ SelectorAccept
  \/ SelectorPushBack
  \/ SelectorReturn
  \/ RespondStrings
  \/ SelectImages
  \/ RespondImages
  \/ NoImagesThrows
  \/ DownloadRejects
  \/ Catch

Spec == Init /\ [][Next]_vars

\* ------------------------------------------------- brute-force greedy (C1)
SetMax(S) == CHOOSE m \in S : \A x \in S : m >= x

\* f(S) = sum over all items i of max_{j in S} similarity(i, j); f({}) = 0.
Coverage(emb, S) ==
  IF S = {} THEN 0
  ELSE SumSeq([i \in 1 .. Len(emb) |-> SetMax({Sim(emb, i - 1, j) : j \in S})])

TrueGain(emb, S, c) == Coverage(emb, S \cup {c}) - Coverage(emb, S)

SeqToSet(s) == {s[t] : t \in 1 .. Len(s)}

\* The unselected candidate of maximal true gain, ties to the smaller index.
BestCandidate(emb, S) ==
  LET rest == Indices(emb) \ S
  IN  CHOOSE c \in rest :
        \A d \in rest :
          \/ TrueGain(emb, S, c) > TrueGain(emb, S, d)
          \/ (TrueGain(emb, S, c) = TrueGain(emb, S, d) /\ c <= d)

RECURSIVE BruteForceGreedy(_, _)
BruteForceGreedy(emb, kk) ==
  IF kk = 0 THEN << >>
  ELSE LET prev == BruteForceGreedy(emb, kk - 1)
       IN  Append(prev, BestCandidate(emb, SeqToSet(prev)))

\* ------------------------------------------------------------ claim helpers
Distinct(s) == \A a, b \in 1 .. Len(s) : a # b => s[a] # s[b]

QueueIndices == {queue[t].idx : t \in 1 .. Len(queue)}

\* The Selector returned a selection to the handler.
Returned == pc \in {"respond", "done"} /\ apiStatus = "ok" /\ thrown = NoError

\* ... for an integer k.
FixedReturned == Returned /\ k # NoK /\ IsIntegerK(k)

AutoReturned == Returned /\ k = NoK

\* The call failed at some step.
Failed ==
  \/ ~tokenOk
  \/ apiStatus \in {"rejected", "not_ok", "malformed"}
  \/ thrown # NoError

\* Indices reported in a deduplicate_strings response, in order.
ResponseIndices == [t \in 1 .. Len(response.content) |->
                      response.content[t].text.index]

\* C1: fixed-k lazy greedy returns the same ordered index sequence as
\* brute-force greedy (maximal true marginal gain each round, ties to the
\* smaller index).
LazyEqualsBruteForce ==
  FixedReturned => selectedIndices = BruteForceGreedy(embeddings, k[1])

\* C2: fixed-k selection returns exactly k distinct indices in 0..n-1, and in
\* every intermediate state the selected indices are distinct and the
\* selected and queued indices partition 0..n-1.
FixedKSelectsKDistinct ==
  /\ FixedReturned =>
       /\ Len(selectedIndices) = k[1]
       /\ Distinct(selectedIndices)
       /\ SeqToSet(selectedIndices) \subseteq Indices(embeddings)
  /\ (pc = "loop" /\ k # NoK) =>
       /\ Distinct(selected)
       /\ SeqToSet(selected) \cap QueueIndices = {}
       /\ SeqToSet(selected) \cup QueueIndices = Indices(embeddings)
       /\ Len(selected) + Len(queue) = Len(embeddings)

FixedKWitness ==
  /\ pc = "done" /\ FixedReturned /\ ~response.isError
  /\ k = << 2 >> /\ Len(embeddings) = 3 /\ Len(selectedIndices) = 2

\* C3: k = n returns a permutation of all n indices: every index 0..n-1
\* appears exactly once in the selection and in the response built from it.
KEqualsNIsPermutation ==
  (FixedReturned /\ k[1] = Len(embeddings)) =>
    /\ Len(selectedIndices) = Len(embeddings)
    /\ SeqToSet(selectedIndices) = Indices(embeddings)
    /\ (pc = "done" /\ tool = "deduplicate_strings") =>
         /\ Len(ResponseIndices) = Len(embeddings)
         /\ SeqToSet(ResponseIndices) = Indices(embeddings)

KEqualsNWitness ==
  /\ pc = "done" /\ FixedReturned /\ tool = "deduplicate_strings"
  /\ k = << 3 >> /\ Len(embeddings) = 3 /\ Len(response.content) = 3

\* The message states the valid range lo..hi.
StatesRange(m, lo, hi) ==
  /\ m.type = "text"
  /\ Len(m.text.args) = 3
  /\ m.text.args[2] = lo
  /\ m.text.args[3] = hi

NoSelectionReturned ==
  /\ selectedIndices = << >>
  /\ response.isError
  /\ Len(response.content) = 1

\* C4: a call with a bearer token whose input is empty, or whose k is < 1 or
\* > n, fails with an error whose message states the valid range 1..n, and
\* no selection is returned.
InvalidInputStatesRange ==
  (pc = "done" /\ tokenOk /\ (n = 0 \/ (k # NoK /\ (KLessOne(k) \/ KGreater(k, n))))) =>
    /\ NoSelectionReturned
    /\ StatesRange(response.content[1], 1, n)

\* C5: automatic mode returns m distinct indices, 1 <= m <= n, in pick order,
\* with a gain sequence of the same length m.
AutoModeShape ==
  AutoReturned =>
    /\ Len(selectedIndices) >= 1
    /\ Len(selectedIndices) <= Len(embeddings)
    /\ Distinct(selectedIndices)
    /\ SeqToSet(selectedIndices) \subseteq Indices(embeddings)
    /\ Len(values) = Len(selectedIndices)

AutoModeWitness ==
  /\ pc = "done" /\ AutoReturned /\ Len(embeddings) = 3
  /\ Len(selectedIndices) = 2 /\ Len(values) = 2

\* C6: the gains recorded at successive picks in automatic mode are
\* non-increasing.
GainsNonIncreasing ==
  AutoReturned =>
    \A t \in 1 .. Len(values) - 1 : values[t] >= values[t + 1]

\* The index of largest raw total similarity, ties to the lowest index.
ArgMaxRawTotal(emb) ==
  CHOOSE c \in Indices(emb) :
    \A d \in Indices(emb) :
      \/ RawTotal(emb, c) > RawTotal(emb, d)
      \/ (RawTotal(emb, c) = RawTotal(emb, d) /\ c <= d)

\* C8: with k = 1 the single returned index has the globally largest total
\* similarity to all items, ties broken by the lowest index.
KOneIsArgMax ==
  (FixedReturned /\ k = << 1 >>) =>
    selectedIndices = << ArgMaxRawTotal(embeddings) >>

KOneWitness ==
  /\ pc = "done" /\ FixedReturned /\ k = << 1 >> /\ Len(embeddings) = 3
  /\ selectedIndices = << 1 >>

Prefix(s, t) == {s[u] : u \in 1 .. t}

\* Pick t repeats the vector of an earlier pick.
DuplicatePick(t) ==
  \E u \in 1 .. t - 1 : embeddings[selected[u] + 1] = embeddings[selected[t] + 1]

\* C9: a candidate whose vector equals that of an already-selected item has
\* zero marginal gain and is never accepted at a round in which some
\* unselected candidate has strictly positive marginal gain; in particular
\* [[1,0],[1,0],[0,1]] with k = 2 yields 0 then 2.
DuplicateNeverPreferred ==
  /\ (pc = "loop" /\ k # NoK) =>
       \A t \in 2 .. Len(selected) :
         DuplicatePick(t) =>
           /\ TrueGain(embeddings, Prefix(selected, t - 1), selected[t]) = 0
           /\ \A c \in Indices(embeddings) \ Prefix(selected, t - 1) :
                TrueGain(embeddings, Prefix(selected, t - 1), c) <= 0
  /\ (FixedReturned /\ k = << 2 >>
        /\ embeddings = << <<1, 0>>, <<1, 0>>, <<0, 1>> >>) =>
       selectedIndices = << 0, 2 >>

\* The errors deduplicate_images throws after the Selector has returned.
LateErrors ==
  { Message("No images to return after deduplication"),
    Message("download failed") }

\* C10: whenever the call fails at any step, the response is an error
\* response carrying only the error message: no selected index or item.
\* Unless the failure came after the selection (an image download), the
\* handler holds no selection either.
FailFastNoPartialResult ==
  (pc = "done" /\ Failed) =>
    /\ response.returned
    /\ response.isError
    /\ Len(response.content) = 1
    /\ response.content[1].type = "text"
    /\ response.content[1].text \in
         { ErrorPrefix(thrown), Message("bearer token required"),
           Message(ApiContext(tool)) }
    /\ thrown \notin LateErrors => selectedIndices = << >>

FailFastWitness ==
  /\ pc = "done" /\ thrown = Message("NumericError") /\ apiStatus = "ok"
  /\ response.isError

\* C11: an empty input, and likewise a k outside 1..n, is rejected before any
\* computation: no embeddings request was sent and no similarity or marginal
\* gain was evaluated when the call has failed.
ValidationBeforeComputation ==
  (pc = "done" /\ (n = 0 \/ (k # NoK /\ (KLessOne(k) \/ KGreater(k, n))))) =>
    /\ response.isError
    /\ apiStatus = "none"
    /\ embeddings = << >>
    /\ queue = << >>
    /\ recomputes = 0

\* The handler passed the vectors of a successful embeddings response to the
\* Selector, and the call is over.
HandedToSelector ==
  /\ pc = "done"
  /\ apiStatus = "ok"

\* The response is the error response whose text is "Error: " + kind.
ErrorReported(kind) ==
  /\ response.isError
  /\ Len(response.content) = 1
  /\ response.content[1].text.text = << "Error: ", kind >>

RECURSIVE split(_)
split(s) ==
  LET comma == IndexOf(s, ",")
  IN  IF comma = 0 THEN << s >>
      ELSE << SubSeq(s, 1, comma - 1) >> \o split(SubSeq(s, comma + 1, Len(s)))

\* Array.prototype.join(",").
RECURSIVE join(_)
join(q) ==
  IF q = << >> THEN ""
  ELSE IF Len(q) = 1 THEN q[1]
  ELSE q[1] \o "," \o join(Tail(q))

\* The white space and line terminators String.prototype.trim strips (and
\* \s matches), as far as a string can hold them here: blank, tab, line
\* feed, vertical tab (U+000B), form feed, carriage return, no-break space
\* (U+00A0), ogham space mark (U+1680) and the byte order mark (U+FEFF).
\* The remaining ones (U+2000 to U+200A, U+2028, U+2029, U+202F, U+205F,
\* U+3000) cannot be written in a string of this module.
WhiteSpace == " \t\n\f\r  ﻿"

IsWhiteSpace(ch) == IndexOf(WhiteSpace, ch) # 0

\* String.prototype.trim.
RECURSIVE trim(_)
trim(s) ==
  IF s = "" THEN s
  ELSE IF IsWhiteSpace(Char(s, 1)) THEN trim(SubSeq(s, 2, Len(s)))
  ELSE IF IsWhiteSpace(Char(s, Len(s))) THEN trim(SubSeq(s, 1, Len(s) - 1))
  ELSE s

\* The characters of tool names in UTF-16 code unit order.
CodeUnitOrder == "_abcdefghijklmnopqrstuvwxyz"

\* Array.prototype.sort's default comparison: a sorts before b.
RECURSIVE StringLess(_, _)
StringLess(a, b) ==
  IF b = "" THEN FALSE
  ELSE IF a = "" THEN TRUE
  ELSE IF Char(a, 1) = Char(b, 1)
    THEN StringLess(SubSeq(a, 2, Len(a)), SubSeq(b, 2, Len(b)))
  ELSE IndexOf(CodeUnitOrder, Char(a, 1)) < IndexOf(CodeUnitOrder, Char(b, 1))

\* Array.from(set).sort().
RECURSIVE sort(_)
sort(set) ==
  IF set = {} THEN << >>
  ELSE LET first == CHOOSE a \in set : \A b \in set \ {a} : StringLess(a, b)
       IN  << first >> \o sort(set \ {first})

RECURSIVE Elements(_)
Elements(q) == IF q = << >> THEN {} ELSE {Head(q)} \cup Elements(Tail(q))

\* --------------------------------------------------------------- tool filter
null == << >>

TOOL_TAGS ==
  [tag \in {"search", "parallel", "read", "utility", "rerank"} |->
     CASE tag = "search" ->
            << "search_web", "search_arxiv", "search_ssrn", "search_images",
               "search_jina_blog", "search_bibtex" >>
       [] tag = "parallel" ->
            << "parallel_search_web", "parallel_search_arxiv",
               "parallel_search_ssrn", "parallel_read_url" >>
       [] tag = "read" ->
            << "read_url", "parallel_read_url", "capture_screenshot_url" >>
       [] tag = "utility" ->
            << "primer", "show_api_key", "expand_query", "guess_datetime_url",
               "extract_pdf" >>
       [] tag = "rerank" ->
            << "sort_by_relevance", "deduplicate_strings",
               "deduplicate_images" >>]

ALL_TOOLS ==
  << "primer", "show_api_key", "read_url", "capture_screenshot_url",
     "guess_datetime_url", "search_web", "search_arxiv", "search_ssrn",
     "search_images", "search_jina_blog", "search_bibtex", "expand_query",
     "parallel_search_web", "parallel_search_arxiv", "parallel_search_ssrn",
     "parallel_read_url", "sort_by_relevance", "deduplicate_strings",
     "deduplicate_images", "extract_pdf" >>

\* TOOL_TAGS is an object literal: these lower-case keys are not its own, but
\* looking them up finds a member of Object.prototype, which is truthy and
\* cannot be iterated.
InheritedKeys == {"constructor", "__proto__"}

\* A query parameter is null when absent and << string >> when present; the
\* code tests it for truthiness, which the empty string fails.
Truthy(param) == param # null /\ param[1] # ""

includeTools(u) == u.include_tools
excludeTools(u) == u.exclude_tools
includeTags(u) == u.include_tags
excludeTags(u) == u.exclude_tags

NoFilter(u) ==
  /\ ~Truthy(includeTools(u))
  /\ ~Truthy(excludeTools(u))
  /\ ~Truthy(includeTags(u))
  /\ ~Truthy(excludeTags(u))

\* map(f) over an array.
Map(q, f(_)) == [i \in DOMAIN q |-> f(q[i])]

ToolNames(param) == Map(split(param[1]), trim)
TagNames(param) == Map(Map(split(param[1]), trim), toLowerCase)

\* for (const tool of TOOL_TAGS[tag]) throws a TypeError on an inherited key.
TagLoopThrows(param) ==
  Truthy(param) /\ \E tag \in Elements(TagNames(param)) : tag \in InheritedKeys

TaggedTools(param) ==
  UNION { Elements(TOOL_TAGS[tag]) :
            tag \in Elements(TagNames(param)) \cap DOMAIN TOOL_TAGS }

StartSet(u) ==
  IF Truthy(includeTags(u)) \/ Truthy(includeTools(u))
    THEN {} ELSE Elements(ALL_TOOLS)

ApplyIncludeTags(u, set) ==
  IF Truthy(includeTags(u)) THEN set \cup TaggedTools(includeTags(u)) ELSE set

ApplyIncludeTools(u, set) ==
  IF Truthy(includeTools(u))
    THEN set \cup (Elements(ToolNames(includeTools(u))) \cap Elements(ALL_TOOLS))
    ELSE set

ApplyExcludeTags(u, set) ==
  IF Truthy(excludeTags(u)) THEN set \ TaggedTools(excludeTags(u)) ELSE set

ApplyExcludeToolsUntrimmed(u, set) ==
  IF Truthy(excludeTools(u))
    THEN set \ Elements(split(excludeTools(u)[1]))
    ELSE set

ApplyExcludeTools(u, set) ==
  IF Truthy(excludeTools(u))
    THEN set \ Elements(ToolNames(excludeTools(u)))
    ELSE set

parseToolFilterThrows(u) ==
  ~NoFilter(u) /\ (TagLoopThrows(includeTags(u)) \/ TagLoopThrows(excludeTags(u)))

\* The value parseToolFilter returns when it does not throw.
parseToolFilter(u) ==
  IF NoFilter(u) THEN null
  ELSE << ApplyExcludeTools(u,
            ApplyExcludeTags(u,
              ApplyIncludeTools(u,
                ApplyIncludeTags(u, StartSet(u))))) >>

\* ------------------------------------------------------------- server cache
isToolEnabled(enabled, toolName) == enabled = null \/ toolName \in enabled[1]

\* The names registerJinaTools passes to isToolEnabled, in order.
RegisteredTools ==
  << "show_api_key", "primer", "guess_datetime_url", "capture_screenshot_url",
     "read_url", "search_web", "expand_query", "search_arxiv", "search_ssrn",
     "search_jina_blog", "search_images", "parallel_search_web",
     "parallel_search_arxiv", "parallel_search_ssrn", "parallel_read_url",
     "sort_by_relevance", "deduplicate_strings", "deduplicate_images",
     "search_bibtex", "extract_pdf" >>

registerJinaTools(enabled) ==
  { toolName \in Elements(RegisteredTools) : isToolEnabled(enabled, toolName) }

createServer(enabled) == registerJinaTools(enabled)

cacheKeyNullAsEmpty(enabled) ==
  IF enabled # null THEN join(sort(enabled[1])) ELSE ""

cacheKey(enabled) ==
  IF enabled # null THEN join(sort(enabled[1])) ELSE "all"

CacheHas(key) == \E entry \in serverCache : entry.key = key
CacheGet(key) == (CHOOSE entry \in serverCache : entry.key = key).server

\* The filters the requests of a session choose from: none, by tag, by name,
\* the same two names in both orders, an unknown tag and an inherited key.
Query(inTools, exTools, inTags, exTags) ==
  [include_tools |-> inTools, exclude_tools |-> exTools,
   include_tags |-> inTags, exclude_tags |-> exTags]

RequestUrls ==
  { Query(null, null, null, null),
    Query(null, null, null, << "parallel" >>),
    Query(null, null, << "search,read" >>, null),
    Query(null, << "read_url" >>, null, null),
    Query(<< "read_url,search_web" >>, null, null, null),
    Query(<< "search_web,read_url" >>, null, null, null),
    Query(null, null, << "nosuch" >>, null),
    Query(null, null, << "constructor" >>, null) }

\* The Authorization headers a request may carry (undefined if absent).
Headers == {undefined, << "Bearer A" >>, << "Bearer B" >>, << "Basic A" >>}

\* if (authHeader?.startsWith("Bearer ")) props.bearerToken =
\* authHeader.substring(7); if (!props.bearerToken && env.JINA_API_KEY)
\* props.bearerToken = env.JINA_API_KEY.  A token is << t >>, or undefined.
bearerToken(authHeader, key) ==
  LET fromHeader ==
        IF authHeader # undefined /\ startsWith(authHeader[1], "Bearer ")
          THEN << SubSeq(authHeader[1], 8, Len(authHeader[1])) >>
          ELSE undefined
  IN  IF Truthy(fromHeader) THEN fromHeader
      ELSE IF Truthy(key) THEN key
      ELSE fromHeader

\* The props fetch builds for a request: the token, and the request's context
\* (client and location data, which tell the requests apart).
Props(authHeader, key, context) ==
  [bearerToken |-> bearerToken(authHeader, key), context |-> context]

notServerVars ==
  << handlerVars, guardVars, equivVars, parVars, bibVars, envKey,
     inflight >>

\* fetch up to the server it hands the request to (index.ts 166-248): the
\* URL's filter is parsed, the props are built and stored in currentProps, and
\* the server is taken from serverCache or created.
NewServer(u) == createServer(parseToolFilter(u))

\* currentProps = props, for the request that is being counted.
StoreProps ==
  \E authHeader \in Headers :
    currentProps' = Props(authHeader, envKey, requests + 1)

RequestThrows ==
  /\ requests < MaxRequests
  /\ \E u \in RequestUrls :
       /\ parseToolFilterThrows(u)
       /\ url' = u
  /\ enabledTools' = null
  /\ server' = << >>
  /\ fetchPc' = "threw"
  /\ requests' = requests + 1
  /\ UNCHANGED << serverCache, currentProps, notServerVars >>

RequestCreatesServer ==
  /\ requests < MaxRequests
  /\ \E u \in RequestUrls :
       /\ ~parseToolFilterThrows(u)
       /\ ~CacheHas(cacheKey(parseToolFilter(u)))
       /\ url' = u
       /\ enabledTools' = parseToolFilter(u)
       /\ serverCache' = serverCache \cup
            {[key |-> cacheKey(parseToolFilter(u)), server |-> NewServer(u)]}
       /\ server' = << NewServer(u) >>
  /\ StoreProps
  /\ fetchPc' = "created"
  /\ requests' = requests + 1
  /\ UNCHANGED << notServerVars >>

RequestReusesServer ==
  /\ requests < MaxRequests
  /\ \E u \in RequestUrls :
       /\ ~parseToolFilterThrows(u)
       /\ CacheHas(cacheKey(parseToolFilter(u)))
       /\ url' = u
       /\ enabledTools' = parseToolFilter(u)
       /\ server' = << CacheGet(cacheKey(parseToolFilter(u))) >>
  /\ StoreProps
  /\ fetchPc' = "reused"
  /\ requests' = requests + 1
  /\ UNCHANGED << serverCache, notServerVars >>

NextServer ==
  \/ RequestThrows
  \/ RequestCreatesServer
  \/ RequestReusesServer

InitServer ==
  /\ HandlerIdle
  /\ InitFetch
  /\ GuardrailIdle
  /\ EquivIdle
  /\ LaterIdle

SpecServer == InitServer /\ [][NextServer]_vars

\* ------------------------------------------------ parseToolFilter on its own
\* Names as a client may write them: exact, padded with white space (a
\* vertical tab before and a no-break space and a blank after search_web, a
\* byte order mark and a blank before and a line feed after Read, a tab
\* after constructor), in another case, unknown.
ToolTokens == {"read_url", "search_web  ", "Read_Url"}
TagTokens == {"﻿ Read\n", "nosuch", "constructor\t"}

Lists(pool) == UNION { [1 .. len -> pool] : len \in 1 .. MaxFilterLen }
Params(pool) == {null} \cup { << join(list) >> : list \in Lists(pool) }

Urls ==
  [include_tools : Params(ToolTokens) \cup {<< "" >>},
   exclude_tools : Params(ToolTokens) \cup {<< "" >>},
   include_tags : Params(TagTokens), exclude_tags : Params(TagTokens)]

ParseThrows ==
  /\ fetchPc = "called"
  /\ parseToolFilterThrows(url)
  /\ fetchPc' = "threw"
  /\ UNCHANGED << url, enabledTools, serverCache, server, requests,
                  notFetchVars >>

ParseReturnsNull ==
  /\ fetchPc = "called"
  /\ NoFilter(url)
  /\ enabledTools' = parseToolFilter(url)
  /\ fetchPc' = "parsed"
  /\ UNCHANGED << url, serverCache, server, requests, notFetchVars >>

ParseReturnsSet ==
  /\ fetchPc = "called"
  /\ ~NoFilter(url)
  /\ ~parseToolFilterThrows(url)
  /\ enabledTools' = parseToolFilter(url)
  /\ fetchPc' = "parsed"
  /\ UNCHANGED << url, serverCache, server, requests, notFetchVars >>

NextFilter ==
  \/ ParseThrows
  \/ ParseReturnsNull
  \/ ParseReturnsSet

InitFilter ==
  /\ HandlerIdle
  /\ GuardrailIdle
  /\ EquivIdle
  /\ LaterIdle
  /\ url \in Urls
  /\ enabledTools = null
  /\ fetchPc = "called"
  /\ serverCache = {}
  /\ server = << >>
  /\ requests = 0

SpecFilter == InitFilter /\ [][NextFilter]_vars

\* C14: the server that handles a request registered exactly the tools the
\* request's filter enables (all of them without a filter), whether it was
\* created for this request or taken from serverCache.
ServerRegistersEnabledTools ==
  fetchPc \in {"created", "reused"} =>
    server = << IF parseToolFilter(url) = null
                  THEN Elements(ALL_TOOLS)
                  ELSE parseToolFilter(url)[1] >>

\* A request whose filter lists two tools is served from the cache, which
\* holds another server as well.
ServerReuseWitness ==
  /\ fetchPc = "reused"
  /\ Cardinality(serverCache) = 2
  /\ url.include_tools = << "search_web,read_url" >>
  /\ server = << {"read_url", "search_web"} >>

\* The names exclude_tools lists, white space around them dropped.
ListedTools(param) ==
  IF param = null THEN {} ELSE { trim(name) : name \in Elements(split(param[1])) }

\* C15: a tool name listed in exclude_tools is never in the set that
\* parseToolFilter returns.
ExcludeToolsAlwaysExcludes ==
  (fetchPc = "parsed" /\ enabledTools # null) =>
    \A name \in ListedTools(excludeTools(url)) : name \notin enabledTools[1]

\* The same tool is included, by name and by tag, and excluded by name.
ExcludeToolsWitness ==
  /\ fetchPc = "parsed"
  /\ url.include_tags = << "﻿ Read\n" >>
  /\ url.include_tools = << "read_url" >>
  /\ url.exclude_tools = << "read_url" >>
  /\ enabledTools = << {"parallel_read_url", "capture_screenshot_url"} >>

ListedTags(param) ==
  IF param = null THEN {} ELSE { toLowerCase(name) : name \in ListedTools(param) }

TagTools(param) ==
  UNION { Elements(TOOL_TAGS[tag]) : tag \in ListedTags(param) \cap DOMAIN TOOL_TAGS }

Given(param) == param # null /\ param # << "" >>

FilterBase(u) ==
  IF ~Given(u.include_tags) /\ ~Given(u.include_tools)
    THEN Elements(ALL_TOOLS)
    ELSE TagTools(u.include_tags)
           \cup (ListedTools(u.include_tools) \cap Elements(ALL_TOOLS))

\* C16: once parseToolFilter has been called it has returned, and what it
\* returned is null when no filter is given and otherwise the set
\* (BASE - tools of the excluded tags) - excluded tools.
FilterPrecedence ==
  fetchPc # "called" =>
    /\ fetchPc = "parsed"
    /\ enabledTools =
         IF \A name \in DOMAIN url : ~Given(url[name])
           THEN null
           ELSE << (FilterBase(url) \ TagTools(url.exclude_tags))
                     \ ListedTools(url.exclude_tools) >>

\* The same equation on the calls that return.
FilterPrecedenceWhenReturned ==
  fetchPc = "parsed" =>
    enabledTools =
      IF \A name \in DOMAIN url : ~Given(url[name])
        THEN null
        ELSE << (FilterBase(url) \ TagTools(url.exclude_tags))
                  \ ListedTools(url.exclude_tools) >>

\* ------------------------------------------------------------ token guardrail
MAX_TOKENS == 25000

GUARDRAIL_CLIENTS == << "claude-code", "claude-ai", "cursor-vscode" >>

\* A text is written as runs of characters of one kind: a "dense" character is
\* a token of its own, four "sparse" characters make one token.
Run(kind, len) == [kind |-> kind, len |-> len]

\* text.length
RECURSIVE length(_)
length(text) ==
  IF text = << >> THEN 0 ELSE Head(text).len + length(Tail(text))

\* text.substring(0, end)
RECURSIVE substring(_, _)
substring(text, end) ==
  IF text = << >> \/ end <= 0 THEN << >>
  ELSE IF Head(text).len >= end THEN << Run(Head(text).kind, end) >>
  ELSE << Head(text) >> \o substring(Tail(text), end - Head(text).len)

\* Math.ceil(a / b) for positive b.
Ceil(a, b) == (a + b - 1) \div b

\* num_tokens as the Segment API reports it.
RECURSIVE num_tokens(_)
num_tokens(text) ==
  IF text = << >> THEN 0
  ELSE (IF Head(text).kind = "dense"
          THEN Head(text).len
          ELSE Ceil(Head(text).len, 4))
         + num_tokens(Tail(text))

\* countTokens: the API's count when the request succeeds, else the estimate.
countTokens(text, apiOk) ==
  IF apiOk THEN num_tokens(text) ELSE Ceil(length(text), 4)

\* JavaScript numbers are IEEE 754 doubles.  A positive double is written
\* [bits, exp]: bits are its 53 significand bits, the most significant (a 1)
\* first, and its value is the sum of bits[i] * 2^(exp - i).
Precision == 53

\* a / b scaled by a power of two into [1/2, 1): a / b * 2^exp is the
\* quotient asked for.
RECURSIVE Normalized(_, _, _)
Normalized(a, b, exp) ==
  IF a >= b THEN Normalized(a, 2 * b, exp + 1)
  ELSE IF 2 * a < b THEN Normalized(2 * a, b, exp - 1)
  ELSE [a |-> a, b |-> b, exp |-> exp]

\* The remainder the long division of r by b (r < b) is left with after
\* count binary digits; the count is halved so that the recursion stays flat.
RECURSIVE RemainderAfter(_, _, _)
RemainderAfter(r, b, count) ==
  IF count = 0 THEN r
  ELSE IF count = 1 THEN (IF 2 * r >= b THEN 2 * r - b ELSE 2 * r)
  ELSE CHOOSE rest \in
         { RemainderAfter(mid, b, count - count \div 2) :
             mid \in {RemainderAfter(r, b, count \div 2)} } : TRUE

\* The first count binary digits of r / b (r < b), by long division.
RECURSIVE QuotientBits(_, _, _)
QuotientBits(r, b, count) ==
  IF count = 0 THEN << >>
  ELSE IF count = 1 THEN (IF 2 * r >= b THEN << 1 >> ELSE << 0 >>)
  ELSE CHOOSE digits \in
         { QuotientBits(r, b, count \div 2)
             \o QuotientBits(mid, b, count - count \div 2) :
             mid \in {RemainderAfter(r, b, count \div 2)} } : TRUE

\* bits + 1 (one bit longer when every bit was 1).
Increment(bits) ==
  LET zeros == {i \in 1 .. Len(bits) : bits[i] = 0}
      last == CHOOSE i \in zeros : \A j \in zeros : j <= i
  IN  IF zeros = {} THEN << 1 >> \o [i \in 1 .. Len(bits) |-> 0]
      ELSE [i \in 1 .. Len(bits) |->
              IF i < last THEN bits[i] ELSE IF i = last THEN 1 ELSE 0]

\* The double for the significand bits, rounded up or not.
Rounded(bits, up, exp) ==
  IF ~up THEN [bits |-> bits, exp |-> exp]
  ELSE IF Len(Increment(bits)) > Len(bits)
    THEN [bits |-> SubSeq(Increment(bits), 1, Len(bits)), exp |-> exp + 1]
    ELSE [bits |-> Increment(bits), exp |-> exp]

\* a / b for positive integers, rounded to the nearest double (ties to even).
Divide(a, b) ==
  LET nz == Normalized(a, b, 0)
      digits == QuotientBits(nz.a, nz.b, Precision)
      rest == RemainderAfter(nz.a, nz.b, Precision)
  IN  Rounded(digits,
              2 * rest > nz.b \/ (2 * rest = nz.b /\ digits[Precision] = 1),
              nz.exp)

\* The binary digits of a natural number, none for 0.
RECURSIVE Binary(_)
Binary(c) == IF c = 0 THEN << >> ELSE Binary(c \div 2) \o << c % 2 >>

\* bits[lo .. hi] * factor + carry: the hi - lo + 1 low binary digits and the
\* carry into the digits above them.
RECURSIVE TimesBlock(_, _, _, _, _)
TimesBlock(bits, lo, hi, factor, carry) ==
  IF lo = hi
    THEN [digits |-> << (bits[lo] * factor + carry) % 2 >>,
          carry |-> (bits[lo] * factor + carry) \div 2]
    ELSE LET mid == (lo + hi) \div 2
         IN  CHOOSE block \in UNION
               { { [digits |-> high.digits \o low.digits,
                    carry |-> high.carry] :
                     high \in
                       {TimesBlock(bits, lo, mid, factor, low.carry)} } :
                   low \in {TimesBlock(bits, mid + 1, hi, factor, carry)} } :
               TRUE

\* The binary digits of bits * factor.
TimesBits(bits, factor) ==
  LET all == TimesBlock(bits, 1, Len(bits), factor, 0)
  IN  Binary(all.carry) \o all.digits

\* factor * x for a positive integer factor, rounded to the nearest double.
Times(factor, x) ==
  LET product ==
        CHOOSE digits \in
          { TimesBits(bits, factor) : bits \in {x.bits} } : TRUE
      sticky == \E i \in Precision + 2 .. Len(product) : product[i] = 1
  IN  Rounded(SubSeq(product, 1, Precision),
              /\ Len(product) > Precision
              /\ product[Precision + 1] = 1
              /\ (sticky \/ product[Precision] = 1),
              x.exp + Len(product) - Precision)

RECURSIVE FromBits(_)
FromBits(bits) ==
  IF bits = << >> THEN 0
  ELSE 2 * FromBits(SubSeq(bits, 1, Len(bits) - 1)) + bits[Len(bits)]

\* Math.floor(x) for a double below 2^31.
Floor(x) == IF x.exp <= 0 THEN 0 ELSE FromBits(SubSeq(x.bits, 1, x.exp))

\* keepRatio = maxTokens / tokens; Math.floor(item.text.length * keepRatio):
\* the quotient is rounded to a double before the product is taken, so the
\* result can be one below floor(len * maxTokens / tokens).
truncatedLength(len, maxTokens, tokens) ==
  IF len = 0 THEN 0
  ELSE CHOOSE cut \in
         { Floor(Times(len, keepRatio)) :
             keepRatio \in {Divide(maxTokens, tokens)} } : TRUE

NoGuarded == [content |-> << >>, isError |-> undefined]

TextItem(text) == [type |-> "text", text |-> text]
ImageItem == [type |-> "image", text |-> << >>]

\* contentItems.filter(item => item.type === 'text')
RECURSIVE textItems(_)
textItems(contentItems) ==
  IF contentItems = << >> THEN << >>
  ELSE (IF Head(contentItems).type = "text"
          THEN << Head(contentItems) >> ELSE << >>)
         \o textItems(Tail(contentItems))

\* contentItems.filter(item => item.type !== 'text')
RECURSIVE nonTextItems(_)
nonTextItems(contentItems) ==
  IF contentItems = << >> THEN << >>
  ELSE (IF Head(contentItems).type # "text"
          THEN << Head(contentItems) >> ELSE << >>)
         \o nonTextItems(Tail(contentItems))

\* String.prototype.includes
includes(s, part) ==
  \E i \in 1 .. Len(s) - Len(part) + 1 : SubSeq(s, i, i + Len(part) - 1) = part

\* c.toLowerCase() for each c of GUARDRAIL_CLIENTS.
LowerClients == Map(GUARDRAIL_CLIENTS, toLowerCase)

shouldApplyGuardrailAnyClient(name) ==
  IF name = undefined \/ name = << "" >> THEN FALSE ELSE TRUE

shouldApplyGuardrail(name) ==
  IF name = undefined \/ name = << "" >> THEN FALSE
  ELSE LET lower == toLowerCase(name[1])
       IN  \E i \in DOMAIN GUARDRAIL_CLIENTS : includes(lower, LowerClients[i])

\* response.isError is optional: undefined, << TRUE >> or << FALSE >>.
IsError(resp) == resp.isError = << TRUE >>

WouldExceedOrReach(total, itemTokens, maxTokens) ==
  total + itemTokens >= maxTokens

WouldExceed(total, itemTokens, maxTokens) == total + itemTokens > maxTokens

\* The texts and items a tool response is made of.
ShortText == << Run("sparse", 40000) >>
MediumText == << Run("sparse", 60000) >>
DenseText == << Run("dense", 20000) >>
MixedText == << Run("dense", 30000), Run("sparse", 80000) >>
LongText == << Run("sparse", 200000) >>
\* 32846 tokens: 25000 / 32846 is no double, and the cut is at 99999.
OddText == << Run("sparse", 131384) >>

ItemPool ==
  { TextItem(ShortText), TextItem(MediumText), TextItem(DenseText),
    TextItem(MixedText), TextItem(LongText), TextItem(OddText), ImageItem }

ClientNames ==
  { undefined, << "" >>, << "claude-code" >>, << "Cursor-VSCode" >>,
    << "my-claude-ai" >>, << "codex" >> }

Contents == UNION { [1 .. len -> ItemPool] : len \in 0 .. MaxItems }

\* applyTokenGuardrail is called with a response and the client's name.
GuardrailCalled ==
  /\ clientName \in ClientNames
  /\ toolResponse \in [content : Contents,
                       isError : {undefined, << TRUE >>, << FALSE >>}]
  /\ guardPc = "called"
  /\ keptItems = << >>
  /\ totalTokens = 0
  /\ counted = << >>
  /\ guarded = NoGuarded

\* applyTokenGuardrail: not a client with the limit.
SkipClient ==
  /\ guardPc = "called"
  /\ ~shouldApplyGuardrail(clientName)
  /\ guarded' = toolResponse
  /\ guardPc' = "returned"
  /\ UNCHANGED << clientName, toolResponse, keptItems, totalTokens, counted,
                  notGuardVars >>

\* applyTokenGuardrail: an error response.
SkipError ==
  /\ guardPc = "called"
  /\ IsError(toolResponse)
  /\ shouldApplyGuardrail(clientName)
  /\ guarded' = toolResponse
  /\ guardPc' = "returned"
  /\ UNCHANGED << clientName, toolResponse, keptItems, totalTokens, counted,
                  notGuardVars >>

Guarding ==
  /\ guardPc = "called"
  /\ ~IsError(toolResponse)
  /\ shouldApplyGuardrail(clientName)

\* truncateContentItems: no text item.
NoTextItems ==
  /\ Len(textItems(toolResponse.content)) = 0
  /\ Guarding
  /\ guarded' = [toolResponse EXCEPT !.content = toolResponse.content]
  /\ guardPc' = "returned"
  /\ UNCHANGED << clientName, toolResponse, keptItems, totalTokens, counted,
                  notGuardVars >>

\* truncateContentItems up to its first countTokens request.
StartCounting ==
  /\ Len(textItems(toolResponse.content)) > 0
  /\ Guarding
  /\ guardPc' = "counting"
  /\ UNCHANGED << clientName, toolResponse, keptItems, totalTokens, counted,
                  guarded, notGuardVars >>

\* truncateContentItems: one text item, within the limit.
SingleItemFits ==
  /\ guardPc = "counting"
  /\ Len(textItems(toolResponse.content)) = 1
  /\ \E apiOk \in BOOLEAN :
       LET tokens == countTokens(textItems(toolResponse.content)[1].text, apiOk)
       IN  /\ tokens <= MAX_TOKENS
           /\ counted' = << tokens >>
  /\ guarded' = [toolResponse EXCEPT !.content = toolResponse.content]
  /\ guardPc' = "returned"
  /\ UNCHANGED << clientName, toolResponse, keptItems, totalTokens,
                  notGuardVars >>

\* truncateContentItems: one text item, cut in proportion.
SingleItemTruncated ==
  /\ guardPc = "counting"
  /\ Len(textItems(toolResponse.content)) = 1
  /\ \E apiOk \in BOOLEAN :
       LET item == textItems(toolResponse.content)[1]
           tokens == countTokens(item.text, apiOk)
           cut == truncatedLength(length(item.text), MAX_TOKENS, tokens)
       IN  /\ tokens > MAX_TOKENS
           /\ counted' = << tokens >>
           /\ guarded' = [toolResponse EXCEPT !.content =
                            nonTextItems(toolResponse.content)
                              \o << TextItem(substring(item.text, cut)) >>]
  /\ guardPc' = "returned"
  /\ UNCHANGED << clientName, toolResponse, keptItems, totalTokens,
                  notGuardVars >>

NextItem == textItems(toolResponse.content)[Len(counted) + 1]

\* The answer counts the item in: it is kept, and the function returns if it
\* was the last one.
LoopKeep ==
  /\ guardPc = "counting"
  /\ Len(textItems(toolResponse.content)) > 1
  /\ \E apiOk \in BOOLEAN :
       LET itemTokens == countTokens(NextItem.text, apiOk)
           last == Len(counted) + 1 = Len(textItems(toolResponse.content))
       IN  /\ ~WouldExceed(totalTokens, itemTokens, MAX_TOKENS)
           /\ keptItems' = Append(keptItems, NextItem)
           /\ totalTokens' = totalTokens + itemTokens
           /\ counted' = Append(counted, itemTokens)
           /\ guardPc' = IF last THEN "returned" ELSE "counting"
           /\ guarded' =
                IF last
                  THEN [toolResponse EXCEPT !.content =
                          nonTextItems(toolResponse.content) \o keptItems']
                  ELSE guarded
  /\ UNCHANGED << clientName, toolResponse, notGuardVars >>

\* The answer counts the item out: the loop breaks and the function returns.
LoopBreak ==
  /\ guardPc = "counting"
  /\ Len(textItems(toolResponse.content)) > 1
  /\ \E apiOk \in BOOLEAN :
       LET itemTokens == countTokens(NextItem.text, apiOk)
       IN  /\ WouldExceed(totalTokens, itemTokens, MAX_TOKENS)
           /\ counted' = Append(counted, itemTokens)
  /\ guarded' = [toolResponse EXCEPT !.content =
                   nonTextItems(toolResponse.content) \o keptItems]
  /\ guardPc' = "returned"
  /\ UNCHANGED << clientName, toolResponse, keptItems, totalTokens,
                  notGuardVars >>

NextGuardrail ==
  \/ SkipClient
  \/ SkipError
  \/ NoTextItems
  \/ SingleItemFits
  \/ SingleItemTruncated
  \/ StartCounting
  \/ LoopKeep
  \/ LoopBreak

InitGuardrail ==
  /\ HandlerIdle
  /\ InitFetch
  /\ GuardrailCalled
  /\ EquivIdle
  /\ LaterIdle

SpecGuardrail == InitGuardrail /\ [][NextGuardrail]_vars

\* The tokens of the text items of a response, as the Segment API counts them.
RECURSIVE TextTokens(_)
TextTokens(items) ==
  IF items = << >> THEN 0
  ELSE (IF Head(items).type = "text" THEN num_tokens(Head(items).text) ELSE 0)
         + TextTokens(Tail(items))

GuardedCall ==
  /\ guardPc = "returned"
  /\ toolResponse.isError # << TRUE >>
  /\ shouldApplyGuardrail(clientName)

\* C17: a guarded response fits the limit: the tokens of its text items sum to
\* at most MAX_TOKENS, with one text item and with several.
GuardedResponseFits ==
  GuardedCall => TextTokens(guarded.content) <= MAX_TOKENS

\* The number of leading counts whose sum stays within max.
LongestFitting(counts, max) ==
  CHOOSE len \in 0 .. Len(counts) :
    /\ SumSeq(SubSeq(counts, 1, len)) <= max
    /\ \A longer \in len + 1 .. Len(counts) :
         SumSeq(SubSeq(counts, 1, longer)) > max

\* C18: with several text items the kept ones are the longest prefix whose
\* counted tokens sum to at most MAX_TOKENS, in their order, and the loop
\* looks at no item after the first one it rejects.
KeepsLongestPrefix ==
  (GuardedCall /\ Len(textItems(toolResponse.content)) > 1) =>
    LET texts == textItems(toolResponse.content)
        fitting == LongestFitting(counted, MAX_TOKENS)
    IN  /\ textItems(guarded.content) = SubSeq(texts, 1, fitting)
        /\ fitting = Len(texts) \/ Len(counted) = fitting + 1

\* The second of three texts is rejected though the third would have fitted.
KeepsPrefixWitness ==
  /\ GuardedCall
  /\ toolResponse.content =
       << TextItem(MediumText), TextItem(DenseText), TextItem(ShortText) >>
  /\ counted = << 15000, 20000 >>
  /\ guarded.content = << TextItem(MediumText) >>

\* The client name contains the name of a client with the limit.
NamesGuardrailClient(name) ==
  /\ name # undefined
  /\ LET lower == toLowerCase(name[1])
     IN  \E client \in {"claude-code", "claude-ai", "cursor-vscode"} :
           includes(lower, client)

\* C19: applyTokenGuardrail returns the response as it is when the client is
\* unknown or not one with the limit, and when the response is an error.
UnguardedUnchanged ==
  (guardPc = "returned"
     /\ (~NamesGuardrailClient(clientName) \/ toolResponse.isError = << TRUE >>))
    => guarded = toolResponse

\* A response far over the limit goes back whole to a client without it.
UnguardedWitness ==
  /\ guardPc = "returned"
  /\ clientName = << "codex" >>
  /\ toolResponse.content = << TextItem(MixedText), ImageItem, TextItem(LongText) >>
  /\ guarded = toolResponse

\* ------------------------------------- singleton tools given an array of items
\* .max(5) on the arrays the parallel_* tools accept.
MaxParallel == 5

DefaultTimeout == 30000

Families == {"search_web", "search_arxiv", "search_ssrn", "read_url"}
ItemNames == {"a", "b"}

Arrays == UNION { [1 .. len -> ItemNames] : len \in 2 .. MaxQueries }

\* A call: the tool family, the queries or URLs, the items whose upstream
\* request fails, whether a bearer token is present and whether the URL
\* reader throws.
Calls ==
  [family : Families, items : Arrays, failed : SUBSET ItemNames,
   bearerOk : BOOLEAN, readThrows : BOOLEAN]

\* items.filter((x, index, self) => index === self.findIndex(y => y.key === x.key))
RECURSIVE unique(_)
unique(items) ==
  IF items = << >> THEN << >>
  ELSE LET rest == unique(SubSeq(items, 1, Len(items) - 1))
           last == items[Len(items)]
       IN  IF last \in Elements(rest) THEN rest ELSE Append(rest, last)

yamlStringify(value) == << "yaml", value >>

\* executeWebSearch, executeArxivSearch, executeSsrnSearch on one query.
searchFunction(c, query) ==
  IF query \in c.failed
    THEN [error |-> << c.family, "failed for query", query >>]
    ELSE [query |-> query, results |-> << c.family, "results", query >>]

\* The timer of executeParallelSearches starts after every search has
\* settled and loses the race against the settled results, so the timeout
\* never fires.
executeParallelSearches(c, searches, timeout) ==
  [i \in DOMAIN searches |-> searchFunction(c, searches[i])]

formatResult(result) ==
  IF "error" \in DOMAIN result
    THEN [type |-> "text", text |-> << "Error: ", result.error >>]
    ELSE [type |-> "text",
          text |-> yamlStringify([query |-> result.query,
                                  results |-> result.results])]

formatParallelSearchResultsToContentItems(results) ==
  [i \in DOMAIN results |-> formatResult(results[i])]

\* executeParallelUrlReads when it returns: one result for each URL.
executeParallelUrlReads(c, urls, timeout) ==
  [i \in DOMAIN urls |->
     IF urls[i] \in c.failed
       THEN [error |-> "read failed", url |-> urls[i]]
       ELSE [success |-> TRUE, structuredData |-> << "page", urls[i] >>]]

IsSuccess(result) == "success" \in DOMAIN result /\ result.success

\* The formatting loop of read_url: failures become "Error reading" items.
RECURSIVE ReadItemsWithErrors(_)
ReadItemsWithErrors(results) ==
  IF results = << >> THEN << >>
  ELSE (IF IsSuccess(Head(results))
          THEN << [type |-> "text",
                   text |-> yamlStringify(Head(results).structuredData)] >>
        ELSE IF "error" \in DOMAIN Head(results)
          THEN << [type |-> "text",
                   text |-> << "Error reading ", Head(results).url, ": ",
                               Head(results).error >>] >>
        ELSE << >>)
         \o ReadItemsWithErrors(Tail(results))

\* The formatting loop of parallel_read_url: failures are left out.
RECURSIVE ReadItems(_)
ReadItems(results) ==
  IF results = << >> THEN << >>
  ELSE (IF IsSuccess(Head(results))
          THEN << [type |-> "text",
                   text |-> yamlStringify(Head(results).structuredData)] >>
          ELSE << >>)
         \o ReadItems(Tail(results))

Returns(content) == [isError |-> FALSE, content |-> content, returned |-> TRUE]

IsSearch(c) == c.family # "read_url"

\* What the singleton tool's array branch returns when nothing is thrown.
SingletonResult(c) ==
  IF IsSearch(c)
    THEN Returns(formatParallelSearchResultsToContentItems(
           executeParallelSearches(c, unique(c.items), DefaultTimeout)))
    ELSE Returns(ReadItemsWithErrors(
           executeParallelUrlReads(c, unique(c.items), DefaultTimeout)))

\* What the parallel_* tool returns when nothing is thrown.
ParallelResult(c, timeout) ==
  IF IsSearch(c)
    THEN Returns(formatParallelSearchResultsToContentItems(
           executeParallelSearches(c, unique(c.items), timeout)))
    ELSE Returns(ReadItems(
           executeParallelUrlReads(c, unique(c.items), timeout)))

\* The client is one without the token limit, so applyTokenGuardrail hands
\* the response of the read tools back as it is.
Unguarded == ~shouldApplyGuardrail(clientName)

SingletonTokenError ==
  /\ ~singletonResponse.returned
  /\ IsSearch(toolCall)
  /\ ~toolCall.bearerOk
  /\ singletonResponse' = checkBearerToken(toolCall.bearerOk)
  /\ UNCHANGED << toolCall, parallelResponse, notEquivVars >>

SingletonThrows ==
  /\ ~singletonResponse.returned
  /\ ~IsSearch(toolCall)
  /\ toolCall.readThrows
  /\ singletonResponse' =
       createErrorResponse(ErrorPrefix(Message("read threw")))
  /\ UNCHANGED << toolCall, parallelResponse, notEquivVars >>

SingletonReturns ==
  /\ ~singletonResponse.returned
  /\ IF IsSearch(toolCall) THEN toolCall.bearerOk ELSE ~toolCall.readThrows /\ Unguarded
  /\ singletonResponse' = SingletonResult(toolCall)
  /\ UNCHANGED << toolCall, parallelResponse, notEquivVars >>

\* More than five items: the schema rejects the call before the handler runs.
ParallelSchemaRejects ==
  /\ ~parallelResponse.returned
  /\ Len(toolCall.items) > MaxParallel
  /\ parallelResponse' = createErrorResponse(Message("Invalid arguments"))
  /\ UNCHANGED << toolCall, singletonResponse, notEquivVars >>

ParallelTokenError ==
  /\ ~parallelResponse.returned
  /\ Len(toolCall.items) <= MaxParallel
  /\ IsSearch(toolCall)
  /\ ~toolCall.bearerOk
  /\ parallelResponse' = checkBearerToken(toolCall.bearerOk)
  /\ UNCHANGED << toolCall, singletonResponse, notEquivVars >>

ParallelThrows ==
  /\ ~parallelResponse.returned
  /\ Len(toolCall.items) <= MaxParallel
  /\ ~IsSearch(toolCall)
  /\ toolCall.readThrows
  /\ parallelResponse' =
       createErrorResponse(ErrorPrefix(Message("read threw")))
  /\ UNCHANGED << toolCall, singletonResponse, notEquivVars >>

ParallelReturns ==
  /\ ~parallelResponse.returned
  /\ Len(toolCall.items) <= MaxParallel
  /\ IF IsSearch(toolCall) THEN toolCall.bearerOk ELSE ~toolCall.readThrows /\ Unguarded
  /\ parallelResponse' = ParallelResult(toolCall, DefaultTimeout)
  /\ UNCHANGED << toolCall, singletonResponse, notEquivVars >>

NextSingleton ==
  \/ SingletonTokenError
  \/ SingletonThrows
  \/ SingletonReturns
  \/ ParallelSchemaRejects
  \/ ParallelTokenError
  \/ ParallelThrows
  \/ ParallelReturns

InitSingleton ==
  /\ HandlerIdle
  /\ InitFetch
  /\ GuardrailIdle
  /\ toolCall \in Calls
  /\ singletonResponse = NoResponse
  /\ parallelResponse = NoResponse
  /\ LaterIdle

SpecSingleton == InitSingleton /\ [][NextSingleton]_vars

BothReturned == singletonResponse.returned /\ parallelResponse.returned

\* C20: a singleton tool given an array of more than one item answers as the
\* parallel_* tool does on the same items, options and the default timeout,
\* whichever items fail.
SingletonEqualsParallel ==
  BothReturned => singletonResponse = parallelResponse

\* The same for the three search tools on at most five items.
SearchToolsAgreeWithinCap ==
  (BothReturned /\ IsSearch(toolCall) /\ Len(toolCall.items) <= MaxParallel) =>
    singletonResponse = parallelResponse

\* The same for read_url on at most five URLs none of which fails.
ReadToolsAgreeOnSuccess ==
  (BothReturned /\ ~IsSearch(toolCall) /\ Len(toolCall.items) <= MaxParallel
     /\ Elements(toolCall.items) \cap toolCall.failed = {}) =>
    singletonResponse = parallelResponse

\* ------------------------------------------------ the scheduler's invariants
\* The set selected so far in the running Selector call.
SelectedSet == SeqToSet(selected)

\* C21: in every state of the scheduler the cached bound of each queued
\* candidate is at least that candidate's true marginal gain with respect to
\* the current selected set, from round 1 on.
BoundsAreUpperBounds ==
  pc = "loop" =>
    \A t \in 1 .. Len(queue) :
      queue[t].bound >= TrueGain(embeddings, SelectedSet, queue[t].idx)

\* The same on vectors whose pairwise similarities are all non-negative.
NonNegative(emb) == \A i, j \in Indices(emb) : Sim(emb, i, j) >= 0

BoundsAreUpperBoundsNonNegative ==
  (pc = "loop" /\ NonNegative(embeddings)) =>
    \A t \in 1 .. Len(queue) :
      queue[t].bound >= TrueGain(embeddings, SelectedSet, queue[t].idx)

\* C22: the candidate accepted at each round has the maximal true marginal
\* gain among the candidates unselected at that round, ties going to the
\* smallest original index; a popped candidate whose recomputed gain is below
\* the next cached bound stays in the queue.
AcceptedIsBest ==
  pc = "loop" =>
    /\ \A t \in 1 .. Len(selected) :
         selected[t] = BestCandidate(embeddings, Prefix(selected, t - 1))
    /\ (queue # << >> /\ ~Acceptable) => Head(queue).idx \notin SelectedSet

\* C23: once the selected set S is non-empty, bestSimSoFar(i) is the maximum
\* of similarity(i, j) over j in S for every item i, and the incremental gain
\* of each unselected candidate c equals f(S + c) - f(S), also with negative
\* similarities and bestSimSoFar initialised to 0.
IncrementalGainIsExact ==
  (pc = "loop" /\ selected # << >>) =>
    /\ \A i \in Indices(embeddings) :
         bestSimSoFar[i] = SetMax({Sim(embeddings, i, j) : j \in SelectedSet})
    /\ \A c \in Indices(embeddings) \ SelectedSet :
         MarginalGain(embeddings, bestSimSoFar, c)
           = TrueGain(embeddings, SelectedSet, c)

\* The same when bestSimSoFar starts at -infinity.
IncrementalGainIsExactFromNegInf ==
  bestInit = NegInf => IncrementalGainIsExact

\* ------------------------------------------------------------- termination
\* The Selector is synchronous: once called, its loop keeps taking its next
\* step until it returns.
SelectorStep == SelectorAccept \/ SelectorPushBack \/ SelectorReturn

\* Vectors the Selector accepts, one per direction of the pool.
LivePool == { <<1, 0>>, <<0, 1>>, <<-1, 0>>, <<3, 4>> }

\* The handler is about to call the Selector: the token was present, the
\* input passed the handler's validation and the service answered with one
\* vector per input string.
InitLive ==
  /\ tool = "deduplicate_strings"
  /\ tokenOk = TRUE
  /\ n \in 1 .. MaxN
  /\ k \in KChoices
  /\ ~InvalidK(k, n)
  /\ bestInit \in BestInitChoices
  /\ pc = "select"
  /\ embeddings \in [1 .. n -> LivePool]
  /\ selected = << >>
  /\ queue = << >>
  /\ bestSimSoFar = << >>
  /\ gains = << >>
  /\ recomputes = 0
  /\ apiStatus = "ok"
  /\ selectedIndices = << >>
  /\ values = << >>
  /\ selectedImages = << >>
  /\ thrown = NoError
  /\ response = NoResponse
  /\ InitFetch
  /\ GuardrailIdle
  /\ EquivIdle
  /\ LaterIdle

NextLive ==
  \/ SelectorThrows
  \/ SelectorStart
  \/ SelectorAccept
  \/ SelectorPushBack
  \/ SelectorReturn

SpecLive == InitLive /\ [][NextLive]_vars /\ WF_vars(SelectorStep)

\* A round that starts with q queued candidates takes at most q + 1
\* recomputations, so len rounds take at most this many.
MaxRecomputes(len) == (len * (len + 3)) \div 2

\* C24: selection terminates.  A call that entered the scheduler loop returns;
\* with a fixed integer k it returns after exactly k acceptances, in automatic
\* mode after at most n picks, and in either mode after a bounded number of
\* pop/recompute steps.
SelectionTerminates ==
  /\ (pc = "loop") ~> (pc = "respond")
  /\ [](pc = "loop" => recomputes <= MaxRecomputes(Len(embeddings)))
  /\ [](pc = "respond" =>
          /\ (k # NoK /\ IsIntegerK(k)) => Len(selected) = k[1]
          /\ k = NoK => Len(selected) <= Len(embeddings)
          /\ recomputes <= MaxRecomputes(Len(embeddings)))

\* Automatic mode returned after n = 3 picks, the gain ratio never having
\* dropped below the threshold.
TerminatesWitness ==
  /\ pc = "respond" /\ k = NoK /\ Len(embeddings) = 3 /\ Len(selected) = 3
  /\ \A t \in 1 .. 3 : gains[t] * SatDen >= gains[1] * SatNum

\* ------------------------------------- executeParallelSearches, step by step
\* What the then method of a resolved value does once Promise.all calls it:
\* it passes a result on or rejects, `after` units of time after the call,
\* or it never calls back.
ThenBehaviours ==
  [calls : {"resolve", "reject"}, after : 0 .. MaxDuration - 1]
    \cup {[calls |-> "never", after |-> 0]}

\* How one search behaves: searchFunction resolves with results, resolves
\* with an {error} value, resolves with results that have a then method by
\* the time Promise.all looks at them, throws a value that has a message or
\* converts to a string, throws a value that does neither
\* (Object.create(null), a throwing toString or message getter), or never
\* completes; all but the last after `duration` units of time.
SearchBehaviours ==
  [outcome : {"results", "error", "throws", "throwsUnprintable"},
   duration : 1 .. MaxDuration]
    \cup [outcome : {"thenable"}, duration : 1 .. MaxDuration,
          then : ThenBehaviours]
    \cup {[outcome |-> "never", duration |-> 0]}

SearchLists ==
  UNION { [1 .. len -> SearchBehaviours] : len \in 0 .. MaxSearches }

Timeouts == 1 .. MaxDuration - 1

\* Time stops once the last search and the last timer are past.
MaxTime == MaxDuration + MaxDuration

fulfilled(value) == [status |-> "fulfilled", value |-> value]
rejected(reason) == [status |-> "rejected", reason |-> reason]

\* Slip: the rejection of a throwing search is not caught.
searchPromiseUncaught(i, s) ==
  IF s.outcome = "results"
    THEN fulfilled([query |-> i, results |-> << "results", i >>])
    ELSE IF s.outcome = "error"
      THEN fulfilled([error |-> << "search error", i >>])
      ELSE IF s.outcome = "thenable"
        THEN fulfilled([query |-> i, results |-> << "results", i >>,
                        then |-> s.then])
        ELSE rejected(<< "thrown", i >>)

\* searches.map(async (searchArgs) => { try { return await
\* searchFunction(searchArgs) } catch (error) { return { error: `Search
\* failed: ...` } } }): what the promise of search i (1-based) settles with.
\* Building the message evaluates error.message or String(error); when that
\* throws, the catch block throws and the promise rejects.
searchPromise(i, s) ==
  IF s.outcome = "results"
    THEN fulfilled([query |-> i, results |-> << "results", i >>])
    ELSE IF s.outcome = "error"
      THEN fulfilled([error |-> << "search error", i >>])
      ELSE IF s.outcome = "thenable"
        THEN fulfilled([query |-> i, results |-> << "results", i >>,
                        then |-> s.then])
        ELSE IF s.outcome = "throws"
          THEN fulfilled([error |-> << "Search failed: ", << "thrown", i >> >>])
          ELSE rejected(<< "conversion failed", i >>)

Pending(i) == settled[i] = << >>

AllSettled == \A i \in DOMAIN settled : ~Pending(i)

\* results.map(result => result.status === 'fulfilled' ? result.value :
\* { error: 'Promise rejected' })
CompletedValues(res) ==
  [i \in DOMAIN res |->
     IF res[i][1].status = "fulfilled" THEN res[i][1].value
     ELSE [error |-> << "Promise rejected" >>]]

\* Promise.all takes a value as it is unless the value has a then method:
\* then it calls the method and waits for it to call back.
HasThen(value) == "then" \in DOMAIN value

WaitsFor(i) == allValues[i] = << >>

\* executeParallelSearches(searches, searchFunction, { timeout }) is called.
ParallelCalled ==
  /\ parSearches \in SearchLists
  /\ parTimeout \in Timeouts
  /\ now = 0
  /\ settled = [i \in DOMAIN parSearches |-> << >>]
  /\ timer = [state |-> "none", at |-> 0]
  /\ allValues = << >>
  /\ parPc = "waiting"
  /\ completedResults = << >>
  /\ endedAt = << >>

notParVars ==
  << handlerVars, fetchVars, guardVars, equivVars, propsVars,
     bibVars >>

\* A search completes: its promise settles.
SearchSettles ==
  /\ parPc = "waiting"
  /\ \E i \in DOMAIN parSearches :
       /\ Pending(i)
       /\ parSearches[i].outcome # "never"
       /\ parSearches[i].duration = now
       /\ settled' = [settled EXCEPT ![i] = << searchPromise(i, parSearches[i]) >>]
  /\ UNCHANGED << parSearches, parTimeout, now, timer, allValues, parPc,
                  completedResults, endedAt, notParVars >>

\* await Promise.allSettled(searchPromises) resumes once every promise has
\* settled; only then is the timer created, and Promise.all given the values.
AllSettledResumes ==
  /\ parPc = "waiting"
  /\ AllSettled
  /\ timer' = [state |-> "armed", at |-> now + parTimeout]
  /\ allValues' =
       [i \in DOMAIN settled |->
          LET value == CompletedValues(settled)[i]
          IN  IF HasThen(value) THEN << >> ELSE << value >>]
  /\ parPc' = "race"
  /\ UNCHANGED << parSearches, parTimeout, now, settled, completedResults,
                  endedAt, notParVars >>

\* When the race began: the timer was created at that time.
RaceBegan == timer.at - parTimeout

\* The then method of value i is due to call back now.
ThenDue(i, calls) ==
  /\ parPc = "race"
  /\ WaitsFor(i)
  /\ parSearches[i].then.calls = calls
  /\ RaceBegan + parSearches[i].then.after <= now

\* The then method of a value passes a result on: Promise.all has that result
\* in the value's place.
ThenCallsBack ==
  /\ \E i \in DOMAIN parSearches :
       /\ ThenDue(i, "resolve")
       /\ allValues' =
            [allValues EXCEPT
               ![i] = << [query |-> i, results |-> << "late", i >>] >>]
  /\ UNCHANGED << parSearches, parTimeout, now, settled, timer, parPc,
                  completedResults, endedAt, notParVars >>

\* The then method of a value rejects: Promise.all rejects, and with it the
\* race and the call.
ThenRejects ==
  /\ \E i \in DOMAIN parSearches :
       /\ ThenDue(i, "reject")
       /\ completedResults' = << "rejected by then", i >>
  /\ parPc' = "threw"
  /\ endedAt' = << now >>
  /\ UNCHANGED << parSearches, parTimeout, now, settled, timer, allValues,
                  notParVars >>

\* Promise.race([Promise.all(values), timeoutPromise]): Promise.all of values
\* that are all there resolves before any timer can fire.
RaceResolves ==
  /\ parPc = "race"
  /\ \A i \in DOMAIN allValues : ~WaitsFor(i)
  /\ completedResults' = [i \in DOMAIN allValues |-> allValues[i][1]]
  /\ parPc' = "returned"
  /\ endedAt' = << now >>
  /\ UNCHANGED << parSearches, parTimeout, now, settled, timer, allValues,
                  notParVars >>

\* The timer fires while Promise.all waits: if (completedResults ===
\* 'timeout') throw new Error(`Parallel search timed out after ${timeout}ms`)
TimedOut ==
  /\ parPc = "race"
  /\ \E i \in DOMAIN allValues : WaitsFor(i)
  /\ timer.state = "armed"
  /\ timer.at <= now
  /\ timer' = [timer EXCEPT !.state = "fired"]
  /\ completedResults' = << "Parallel search timed out after", parTimeout >>
  /\ parPc' = "threw"
  /\ endedAt' = << now >>
  /\ UNCHANGED << parSearches, parTimeout, now, settled, allValues,
                  notParVars >>

\* The timer fires after the call has ended: resolve('timeout') on a race
\* that is already decided has no effect.
TimerFires ==
  /\ parPc \in {"returned", "threw"}
  /\ timer.state = "armed"
  /\ timer.at <= now
  /\ timer' = [timer EXCEPT !.state = "fired"]
  /\ UNCHANGED << parSearches, parTimeout, now, settled, allValues, parPc,
                  completedResults, endedAt, notParVars >>

\* Time passes once everything that is due now has happened.
Tick ==
  /\ parPc # "idle"
  /\ now < MaxTime
  /\ ~(parPc = "waiting" /\ AllSettled)
  /\ \A i \in DOMAIN parSearches :
       (Pending(i) /\ parSearches[i].outcome # "never") =>
         parSearches[i].duration > now
  /\ ~(parPc = "race" /\ \A i \in DOMAIN allValues : ~WaitsFor(i))
  /\ \A i \in DOMAIN allValues :
       ~ThenDue(i, "resolve") /\ ~ThenDue(i, "reject")
  /\ ~(timer.state = "armed" /\ timer.at <= now)
  /\ now' = now + 1
  /\ UNCHANGED << parSearches, parTimeout, settled, timer, allValues, parPc,
                  completedResults, endedAt, notParVars >>

NextParallel ==
  \/ SearchSettles
  \/ AllSettledResumes
  \/ ThenCallsBack
  \/ ThenRejects
  \/ RaceResolves
  \/ TimedOut
  \/ TimerFires
  \/ Tick

InitParallel ==
  /\ HandlerIdle
  /\ InitFetch
  /\ GuardrailIdle
  /\ EquivIdle
  /\ PropsIdle
  /\ BibIdle
  /\ ParallelCalled

SpecParallel == InitParallel /\ [][NextParallel]_vars

\* Search i had completed by time t.
CompletedBy(i, t) ==
  parSearches[i].outcome # "never" /\ parSearches[i].duration <= t

\* C25: the timeout is enforced: the call never returns later than `timeout`
\* after it was made, and when some search has not completed by then (or
\* never completes) the call has ended by then with the error 'Parallel
\* search timed out after <timeout>ms'.
TimeoutEnforced ==
  /\ parPc = "returned" => endedAt[1] <= parTimeout
  /\ (parPc # "idle" /\ now > parTimeout
        /\ \E i \in DOMAIN parSearches : ~CompletedBy(i, parTimeout)) =>
       /\ parPc = "threw"
       /\ completedResults = << "Parallel search timed out after", parTimeout >>

\* C26: when executeParallelSearches returns, the result has one entry per
\* input search, in input order; a search that throws gives an {error} entry
\* at its own position ('Search failed: ...', or 'Promise rejected' when the
\* thrown value has no message and no string form) and the entries of the
\* other searches are what those searches resolved with (what its then
\* method passed on, for a value that has one).
OneResultPerSearch ==
  parPc = "returned" =>
    /\ Len(completedResults) = Len(parSearches)
    /\ \A i \in DOMAIN parSearches :
         LET r == completedResults[i]
             o == parSearches[i].outcome
         IN  /\ o = "results" =>
                  r = [query |-> i, results |-> << "results", i >>]
             /\ o = "error" => r = [error |-> << "search error", i >>]
             /\ o = "thenable" =>
                  r = [query |-> i, results |-> << "late", i >>]
             /\ o = "throws" =>
                  r = [error |-> << "Search failed: ", << "thrown", i >> >>]
             /\ o = "throwsUnprintable" =>
                  r = [error |-> << "Promise rejected" >>]
    /\ LET items == formatParallelSearchResultsToContentItems(completedResults)
       IN  /\ Len(items) = Len(parSearches)
           /\ \A i \in DOMAIN parSearches :
                (items[i].text[1] = "Error: ")
                  <=> (parSearches[i].outcome
                         \in {"error", "throws", "throwsUnprintable"})

\* Two searches returned: the first threw after the second had resolved.
OneResultWitness ==
  /\ parPc = "returned"
  /\ Len(parSearches) = 2
  /\ parSearches[1].outcome = "throws" /\ parSearches[1].duration = 2
  /\ parSearches[2].outcome = "results" /\ parSearches[2].duration = 1
  /\ "error" \in DOMAIN completedResults[1]
  /\ completedResults[2].query = 2

\* -------------------------------------------- two requests and currentProps
\* The props fetch builds for request r.
BuildProps(r) == Props(inflight[r].authorization, envKey, r)

\* show_api_key's answer for the props the handler got.
showApiKey(props) ==
  IF ~Truthy(props.bearerToken)
    THEN [isError |-> TRUE,
          content |-> << [type |-> "text",
                          text |-> "No bearer token found in request"] >>]
    ELSE [isError |-> FALSE,
          content |-> << [type |-> "text", text |-> props.bearerToken[1]] >>]

NoProps == [bearerToken |-> << >>, context |-> 0]

\* Two requests have arrived at the worker; neither has been handled yet.
TwoRequests ==
  /\ currentProps = NoProps
  /\ envKey \in {undefined, << "K" >>}
  /\ inflight \in
       [1 .. 2 -> [authorization : Headers, pc : {"arrived"},
                   props : {NoProps}, answer : {<< >>}]]

notPropsVars ==
  << handlerVars, guardVars, equivVars, parVars, bibVars, url,
     enabledTools, fetchPc, server, requests >>

\* fetch, up to the call of the MCP handler: the props are built and stored
\* in currentProps, the server for "no filter" is looked up or created, and
\* the MCP handler starts reading the request.
FetchStoresProps ==
  /\ \E r \in DOMAIN inflight :
       /\ inflight[r].pc = "arrived"
       /\ currentProps' = BuildProps(r)
       /\ inflight' = [inflight EXCEPT ![r].pc = "dispatched"]
  /\ serverCache' =
       IF CacheHas(cacheKey(null)) THEN serverCache
       ELSE serverCache \cup
              {[key |-> cacheKey(null), server |-> createServer(null)]}
  /\ UNCHANGED << envKey, notPropsVars >>

\* The MCP handler has read the request and calls the tool, whose first
\* statement is const props = getProps().
ToolGetsProps ==
  /\ \E r \in DOMAIN inflight :
       /\ inflight[r].pc = "dispatched"
       /\ inflight' = [inflight EXCEPT ![r].pc = "running",
                                       ![r].props = currentProps]
  /\ UNCHANGED << currentProps, envKey, serverCache, notPropsVars >>

\* show_api_key returns the token of the props it got.
ShowApiKeyReturns ==
  /\ \E r \in DOMAIN inflight :
       /\ inflight[r].pc = "running"
       /\ inflight' = [inflight EXCEPT ![r].pc = "done",
                                       ![r].answer = << showApiKey(inflight[r].props) >>]
  /\ UNCHANGED << currentProps, envKey, serverCache, notPropsVars >>

NextProps ==
  \/ FetchStoresProps
  \/ ToolGetsProps
  \/ ShowApiKeyReturns

InitProps ==
  /\ HandlerIdle
  /\ InitFetch
  /\ GuardrailIdle
  /\ EquivIdle
  /\ ParallelIdle
  /\ BibIdle
  /\ TwoRequests

SpecProps == InitProps /\ [][NextProps]_vars

\* C27: under every interleaving of two requests in flight, the tool handler
\* run for a request gets the props built for that request, and show_api_key
\* answers with that request's own bearer token.
PropsBelongToRequest ==
  \A r \in DOMAIN inflight :
    /\ inflight[r].pc \in {"running", "done"} =>
         inflight[r].props = BuildProps(r)
    /\ inflight[r].pc = "done" =>
         inflight[r].answer = << showApiKey(BuildProps(r)) >>

\* The same when each request is handled before the next one arrives.
PropsBelongWhenSequential ==
  \A r \in DOMAIN inflight :
    (inflight[r].pc \in {"running", "done"}
       /\ \A q \in DOMAIN inflight :
            q # r => inflight[q].pc \in {"arrived", "done"}
       /\ currentProps = BuildProps(r)) =>
      inflight[r].props = BuildProps(r)

\* ------------------------------------------- deduplicateResults (bibtex.ts)
\* First position at or after i that holds no white space.
RECURSIVE SkipBlanks(_, _)
SkipBlanks(s, i) ==
  IF i <= Len(s) /\ IsWhiteSpace(Char(s, i)) THEN SkipBlanks(s, i + 1) ELSE i

\* First position at or after i that holds white space, 0 if there is none.
RECURSIVE NextBlank(_, _)
NextBlank(s, i) ==
  IF i > Len(s) THEN 0
  ELSE IF IsWhiteSpace(Char(s, i)) THEN i
  ELSE NextBlank(s, i + 1)

\* String.prototype.split(/\s+/) on ASCII strings.
RECURSIVE splitWords(_)
splitWords(s) ==
  LET blank == NextBlank(s, 1)
  IN  IF blank = 0 THEN << s >>
      ELSE << SubSeq(s, 1, blank - 1) >>
             \o splitWords(SubSeq(s, SkipBlanks(s, blank), Len(s)))

\* replace(/[^a-z]/g, '')
RECURSIVE keepLetters(_)
keepLetters(w) ==
  IF w = "" THEN w
  ELSE (IF Char(w, 1) \in Chars("abcdefghijklmnopqrstuvwxyz")
          THEN Char(w, 1) ELSE "")
         \o keepLetters(SubSeq(w, 2, Len(w)))

Digits == "0123456789"

\* `${year}` for a natural number.
RECURSIVE toString(_)
toString(x) ==
  IF x < 10 THEN Char(Digits, x + 1)
  ELSE toString(x \div 10) \o Char(Digits, (x % 10) + 1)

\* A year is << y >>, undefined (searchDblp, when the hit has none) or null
\* (searchSemanticScholar copies paper.year, which the service may leave
\* null); parseInt of a year that is no number gives NaN.
nullYear == << 0, 0 >>
NaN == << 0, 0, 0 >>

\* A year that is truthy: a number other than 0 and NaN.
HasYear(year) == Len(year) = 1 /\ year[1] # 0

\* a === b on years: NaN equals nothing, undefined and null differ.
StrictEquals(a, b) == a = b /\ a # NaN

\* generateKey(title, year): the first word's letters, then `${year || ''}`.
generateKey(title, year) ==
  LET words == splitWords(toLowerCase(title))
      cleaned == keepLetters(words[1])
      firstWord == IF cleaned # "" THEN cleaned ELSE "unknown"
  IN  firstWord \o (IF HasYear(year) THEN toString(year[1]) ELSE "")

stripPrefix(s, prefix) ==
  IF startsWith(s, prefix) THEN SubSeq(s, Len(prefix) + 1, Len(s)) ELSE s

\* doi.toLowerCase().replace(/^https?:\/\/doi\.org\//i, '')
\*    .replace(/^doi:/i, '').trim()
normalizeDoi(doi) ==
  LET lower == toLowerCase(doi)
      noUrl == IF startsWith(lower, "https://doi.org/")
                 THEN stripPrefix(lower, "https://doi.org/")
                 ELSE stripPrefix(lower, "http://doi.org/")
  IN  trim(stripPrefix(noUrl, "doi:"))

RECURSIVE DigitsAtEnd(_)
DigitsAtEnd(s) ==
  IF s # "" /\ IndexOf(Digits, Char(s, Len(s))) # 0
    THEN 1 + DigitsAtEnd(SubSeq(s, 1, Len(s) - 1))
    ELSE 0

\* arxiv_id.replace(/v\d+$/, '')
stripVersion(id) ==
  LET d == DigitsAtEnd(id)
  IN  IF d > 0 /\ Len(id) > d /\ Char(id, Len(id) - d) = "v"
        THEN SubSeq(id, 1, Len(id) - d - 1)
        ELSE id

\* new Set(title.toLowerCase().split(/\s+/).filter(w => w.length > 2))
titleWords(title) ==
  {w \in Elements(splitWords(toLowerCase(title))) : Len(w) > 2}

\* similarity(a, b) > 0.85, the similarity being |A n B| / max(|A|, |B|), or
\* 0 when a word set is empty.
similarTitles(a, b) ==
  LET wordsA == titleWords(a)
      wordsB == titleWords(b)
  IN  /\ wordsA # {}
      /\ wordsB # {}
      /\ Cardinality(wordsA \cap wordsB) * 100
           > 85 * Max(Cardinality(wordsA), Cardinality(wordsB))

\* mergeEntries(target, source), on the fields the deduplication reads: a
\* missing doi or arxiv_id of the target is filled in from the source.
mergeEntries(target, source) ==
  [target EXCEPT
     !.doi = IF ~Truthy(@) /\ Truthy(source.doi) THEN source.doi ELSE @,
     !.arxiv_id =
        IF ~Truthy(@) /\ Truthy(source.arxiv_id) THEN source.arxiv_id ELSE @]

\* Position in the Map `seen` of the entry stored under key, 0 if none.
SeenIndex(key) ==
  IF \E t \in 1 .. Len(seen) : seen[t].key = key
    THEN CHOOSE t \in 1 .. Len(seen) : seen[t].key = key
    ELSE 0

\* seen.set(entry.key, entry): a key that is present keeps its place.
SeenSet(e) ==
  IF SeenIndex(e.key) # 0 THEN [seen EXCEPT ![SeenIndex(e.key)] = e]
  ELSE Append(seen, e)

\* The order of the root collation on ASCII: white space, punctuation,
\* symbols, digits, letters, each capital right after its small letter.
CollationOrder == "\t\n\f\r _-,;:!?.'\"()[]{}@*/\\&#%^+<=>|~$0123456789aAbBcCdDeEfFgGhHiIjJkKlLmMnNoOpPqQrRsStTuUvVwWxXyYzZ"

CollationPlace ==
  [c \in Chars(CollationOrder) |->
     CHOOSE i \in 1 .. Len(CollationOrder) : Char(CollationOrder, i) = c]

Capitals == Chars("ABCDEFGHIJKLMNOPQRSTUVWXYZ")

\* Primary weight: the place of the character, a capital taking the place of
\* its small letter.
Primary(c) ==
  IF c \in Capitals THEN CollationPlace[c] - 1 ELSE CollationPlace[c]

\* Tertiary weight: a small letter before its capital.
Tertiary(c) == IF c \in Capitals THEN 1 ELSE 0

Weights(str, weight(_)) == [i \in 1 .. Len(str) |-> weight(Char(str, i))]

\* Two weight sequences compared from the left: -1, 0 or 1.
CompareWeights(x, y) ==
  LET differ == {i \in 1 .. Len(x) : i <= Len(y) /\ x[i] # y[i]}
      first == CHOOSE i \in differ : \A j \in differ : i <= j
  IN  IF differ # {} THEN (IF x[first] < y[first] THEN -1 ELSE 1)
      ELSE IF Len(x) < Len(y) THEN -1
      ELSE IF Len(x) > Len(y) THEN 1
      ELSE 0

\* a.localeCompare(b) on ASCII titles: by primary weights, case deciding
\* between strings whose primary weights are equal ("a" before "A").
localeCompare(a, b) ==
  LET primary == CompareWeights(Weights(a, Primary), Weights(b, Primary))
  IN  IF primary # 0 THEN primary
      ELSE CompareWeights(Weights(a, Tertiary), Weights(b, Tertiary))

\* The sort's comparator: year descending when both entries have one and
\* they differ, by title otherwise.
compareEntries(a, b) ==
  IF HasYear(a.year) /\ HasYear(b.year) /\ a.year # b.year
    THEN b.year[1] - a.year[1]
    ELSE localeCompare(a.title, b.title)

\* Array.prototype.sort is V8's TimSort; an array shorter than 64 is one
\* run: CountAndMakeRun finds the run the array starts with and
\* BinaryInsertionSort inserts the rest into it.  RunEnd is the length of
\* that run, idx being the next position to look at.
RECURSIVE RunEnd(_, _, _)
RunEnd(q, idx, isDescending) ==
  IF idx > Len(q) THEN Len(q)
  ELSE LET order == compareEntries(q[idx], q[idx - 1])
       IN  IF (isDescending /\ order >= 0) \/ (~isDescending /\ order < 0)
             THEN idx - 1
             ELSE RunEnd(q, idx + 1, isDescending)

\* ReverseRange(0, runLength)
ReverseRange(q, runLength) ==
  [i \in 1 .. Len(q) |-> IF i <= runLength THEN q[runLength + 1 - i] ELSE q[i]]

\* CountAndMakeRun(0, length): a strictly descending run is reversed.
CountAndMakeRun(q) ==
  LET isDescending == compareEntries(q[2], q[1]) < 0
      runLength == RunEnd(q, 3, isDescending)
  IN  [runLength |-> runLength,
       workArray |-> IF isDescending THEN ReverseRange(q, runLength) ELSE q]

\* The place of pivot among q[left .. right - 1], which is sorted.
RECURSIVE BinarySearch(_, _, _, _)
BinarySearch(q, pivot, left, right) ==
  IF left >= right THEN left
  ELSE LET mid == left + ((right - left) \div 2)
       IN  IF compareEntries(pivot, q[mid]) < 0
             THEN BinarySearch(q, pivot, left, mid)
             ELSE BinarySearch(q, pivot, mid + 1, right)

\* q[start] moved to position left, what was in between shifted up.
MoveTo(q, start, left) ==
  [i \in 1 .. Len(q) |->
     IF i < left \/ i > start THEN q[i]
     ELSE IF i = left THEN q[start]
     ELSE q[i - 1]]

\* BinaryInsertionSort(0, start, length)
RECURSIVE BinaryInsertionSort(_, _)
BinaryInsertionSort(q, start) ==
  IF start > Len(q) THEN q
  ELSE BinaryInsertionSort(
         MoveTo(q, start, BinarySearch(q, q[start], 1, start)), start + 1)

\* Array.from(seen.values()).sort(...).  An array of fewer than 64 entries is
\* one run, extended by binary insertion; from 64 entries on the sort merges
\* runs, and sortEntries has no value.
sortEntries(q) ==
  CASE Len(q) < 2 -> q
    [] Len(q) \in 2 .. 63 ->
         LET run == CountAndMakeRun(q)
         IN  BinaryInsertionSort(run.workArray, run.runLength + 1)

\* An entry as searchDblp and searchSemanticScholar build it: the key is
\* generated from the title and the year.
Entry(title, year, doi, arxiv) ==
  [key |-> generateKey(title, year), title |-> title, year |-> year,
   doi |-> doi, arxiv_id |-> arxiv]

\* Three papers: two titles that differ in a leading article only, and a
\* different paper whose title starts with the same word; the latter also
\* without a year, as either search reports it.
EntryPool ==
  { Entry("Deep learning methods survey", << 2020 >>, undefined, undefined),
    Entry("A deep learning methods survey", << 2020 >>, << "10.1/x" >>,
          undefined),
    Entry("Deep residual networks", << 2020 >>, << "doi:10.1/X" >>,
          undefined),
    Entry("A deep learning methods survey", << 2020 >>, undefined,
          << "2001.1v1" >>),
    Entry("Deep residual networks", << 2021 >>, undefined,
          << "2001.1v2" >>),
    Entry("Deep residual networks", << 2020 >>, undefined, undefined),
    Entry("deep residual networks", undefined, undefined, undefined),
    Entry("Deep Residual Networks", nullYear, undefined, undefined),
    Entry("Deep learning methods survey", << 2020 >>,
          << "https://doi.org/10.1/x" >>, << "2001.1" >>) }

EntryLists == UNION { [1 .. len -> EntryPool] : len \in 0 .. MaxEntries }

\* deduplicateResults(results) is called.
DedupCalled ==
  /\ entries \in EntryLists
  /\ bibIdx = 1
  /\ seen = << >>
  /\ seenDois = << >>
  /\ seenArxiv = << >>
  /\ mergedInto = << >>
  /\ bibPc = "loop"
  /\ deduplicated = << >>

notBibVars ==
  << handlerVars, fetchVars, guardVars, equivVars, parVars,
     propsVars >>

\* The entry of this iteration, tagged with its position in the input.
CurrentEntry ==
  [id |-> bibIdx, key |-> entries[bibIdx].key,
   title |-> entries[bibIdx].title, year |-> entries[bibIdx].year,
   doi |-> entries[bibIdx].doi, arxiv_id |-> entries[bibIdx].arxiv_id]

InLoop == bibPc = "loop" /\ bibIdx <= Len(entries)

CurrentDoi == normalizeDoi(CurrentEntry.doi[1])

CurrentArxiv == stripVersion(CurrentEntry.arxiv_id[1])

DoiSeen == Truthy(CurrentEntry.doi) /\ CurrentDoi \in DOMAIN seenDois

ArxivSeen ==
  /\ ~DoiSeen
  /\ Truthy(CurrentEntry.arxiv_id)
  /\ CurrentArxiv \in DOMAIN seenArxiv

\* seenDois.set(normalizedDoi, entry.key), if the entry has a DOI.
DoisAfter ==
  IF Truthy(CurrentEntry.doi)
    THEN (CurrentDoi :> CurrentEntry.key) @@ seenDois
    ELSE seenDois

\* seenArxiv.set(normalizedArxiv, entry.key), if the entry has an arXiv id.
ArxivAfter ==
  IF Truthy(CurrentEntry.arxiv_id)
    THEN (CurrentArxiv :> CurrentEntry.key) @@ seenArxiv
    ELSE seenArxiv

\* Positions in `seen` of the entries with a similar title and a year that
\* is === the entry's.
TitleDuplicates ==
  {t \in 1 .. Len(seen) :
     /\ similarTitles(CurrentEntry.title, seen[t].title)
     /\ StrictEquals(CurrentEntry.year, seen[t].year)}

FirstOf(S) == CHOOSE t \in S : \A u \in S : t <= u

MergeInto(t) ==
  /\ seen' = [seen EXCEPT ![t] = mergeEntries(@, CurrentEntry)]
  /\ mergedInto' = Append(mergedInto, seen[t].id)
  /\ bibIdx' = bibIdx + 1

\* The DOI is known: merge into the entry stored under its key.
DoiMatchMerges ==
  /\ InLoop
  /\ DoiSeen
  /\ SeenIndex(seenDois[CurrentDoi]) # 0
  /\ MergeInto(SeenIndex(seenDois[CurrentDoi]))
  /\ UNCHANGED << entries, seenDois, seenArxiv, bibPc, deduplicated,
                  notBibVars >>

\* The DOI is known but no entry is stored under its key: seen.get returns
\* undefined and mergeEntries throws a TypeError.
DoiMatchThrows ==
  /\ InLoop
  /\ DoiSeen
  /\ SeenIndex(seenDois[CurrentDoi]) = 0
  /\ bibPc' = "threw"
  /\ UNCHANGED << entries, bibIdx, seen, seenDois, seenArxiv, mergedInto,
                  deduplicated, notBibVars >>

\* The arXiv id is known: merge into the entry stored under its key.
ArxivMatchMerges ==
  /\ InLoop
  /\ ArxivSeen
  /\ SeenIndex(seenArxiv[CurrentArxiv]) # 0
  /\ MergeInto(SeenIndex(seenArxiv[CurrentArxiv]))
  /\ seenDois' = DoisAfter
  /\ UNCHANGED << entries, seenArxiv, bibPc, deduplicated, notBibVars >>

ArxivMatchThrows ==
  /\ InLoop
  /\ ArxivSeen
  /\ SeenIndex(seenArxiv[CurrentArxiv]) = 0
  /\ seenDois' = DoisAfter
  /\ bibPc' = "threw"
  /\ UNCHANGED << entries, bibIdx, seen, seenArxiv, mergedInto, deduplicated,
                  notBibVars >>

\* Neither id is known, a stored entry has a similar title and the same year.
TitleMatchMerges ==
  /\ InLoop
  /\ ~DoiSeen
  /\ ~ArxivSeen
  /\ TitleDuplicates # {}
  /\ MergeInto(FirstOf(TitleDuplicates))
  /\ seenDois' = DoisAfter
  /\ seenArxiv' = ArxivAfter
  /\ UNCHANGED << entries, bibPc, deduplicated, notBibVars >>

\* No duplicate found: seen.set(entry.key, entry).
StoreEntry ==
  /\ InLoop
  /\ ~DoiSeen
  /\ ~ArxivSeen
  /\ TitleDuplicates = {}
  /\ seen' = SeenSet(CurrentEntry)
  /\ mergedInto' = Append(mergedInto, bibIdx)
  /\ seenDois' = DoisAfter
  /\ seenArxiv' = ArxivAfter
  /\ bibIdx' = bibIdx + 1
  /\ UNCHANGED << entries, bibPc, deduplicated, notBibVars >>

\* The loop is over: the stored entries are sorted and returned.
DedupReturns ==
  /\ bibPc = "loop"
  /\ bibIdx > Len(entries)
  /\ deduplicated' = sortEntries(seen)
  /\ bibPc' = "done"
  /\ UNCHANGED << entries, bibIdx, seen, seenDois, seenArxiv, mergedInto,
                  notBibVars >>

NextBib ==
  \/ DoiMatchMerges
  \/ DoiMatchThrows
  \/ ArxivMatchMerges
  \/ ArxivMatchThrows
  \/ TitleMatchMerges
  \/ StoreEntry
  \/ DedupReturns

InitBib ==
  /\ HandlerIdle
  /\ InitFetch
  /\ GuardrailIdle
  /\ EquivIdle
  /\ ParallelIdle
  /\ PropsIdle
  /\ DedupCalled

SpecBib == InitBib /\ [][NextBib]_vars

\* C28: at every point of the loop each key stored in seenDois or seenArxiv
\* is the key of an entry present in `seen`, that entry has this DOI or arXiv
\* id, and no missing entry is ever dereferenced.
SeenKeysResolve ==
  /\ bibPc # "threw"
  /\ \A d \in DOMAIN seenDois :
       /\ SeenIndex(seenDois[d]) # 0
       /\ Truthy(seen[SeenIndex(seenDois[d])].doi)
       /\ normalizeDoi(seen[SeenIndex(seenDois[d])].doi[1]) = d
  /\ \A a \in DOMAIN seenArxiv :
       /\ SeenIndex(seenArxiv[a]) # 0
       /\ Truthy(seen[SeenIndex(seenArxiv[a])].arxiv_id)
       /\ stripVersion(seen[SeenIndex(seenArxiv[a])].arxiv_id[1]) = a

\* a and b are duplicates: same normalized DOI, same arXiv id up to the
\* version, or similar titles and equal years.
Duplicates(a, b) ==
  \/ /\ Truthy(a.doi) /\ Truthy(b.doi)
     /\ normalizeDoi(a.doi[1]) = normalizeDoi(b.doi[1])
  \/ /\ Truthy(a.arxiv_id) /\ Truthy(b.arxiv_id)
     /\ stripVersion(a.arxiv_id[1]) = stripVersion(b.arxiv_id[1])
  \/ similarTitles(a.title, b.title) /\ StrictEquals(a.year, b.year)

\* C29: no paper is lost: every input entry is in the output or was merged
\* into an output entry that is a duplicate of it, and an entry is only ever
\* merged into a duplicate of it.
NoPaperLost ==
  bibPc = "done" =>
    \A i \in 1 .. Len(entries) :
      /\ \E t \in 1 .. Len(deduplicated) :
           /\ deduplicated[t].id = mergedInto[i]
           /\ mergedInto[i] # i => Duplicates(entries[i], deduplicated[t])
      /\ mergedInto[i] # i => Duplicates(entries[i], entries[mergedInto[i]])

\* ------------------------------------- any number of embeddings returned
\* Vectors of a response whose length is not the number of inputs.
MiscountPool == { <<1, 0>>, <<0, 1>> }

\* data.data is an array whose length differs from the number of inputs sent:
\* the handler maps it to `embeddings` without comparing the lengths.
FetchMiscounted ==
  /\ pc = "fetch"
  /\ \E len \in (0 .. n + 1) \ {n} :
       \E emb \in [1 .. len -> MiscountPool] : embeddings' = emb
  /\ apiStatus' = "ok"
  /\ pc' = "select"
  /\ UNCHANGED << otherVars, inVars, selVars, outVars, thrown, response >>

NextAnyCount == Next \/ FetchMiscounted

SpecAnyCount == Init /\ [][NextAnyCount]_vars

\* C30: every index reported back to the caller is a valid index of the
\* caller's input array and is paired with the item at that index, whatever
\* number of embeddings the service returned and whatever accepted k.
ReportedIndicesValid ==
  (pc = "done" /\ ~response.isError) =>
    /\ \A t \in 1 .. Len(selectedIndices) : selectedIndices[t] \in 0 .. n - 1
    /\ tool = "deduplicate_strings" =>
         \A t \in 1 .. Len(response.content) :
           /\ response.content[t].text.index \in 0 .. n - 1
           /\ response.content[t].text.text
                = << "strings", response.content[t].text.index >>

\* The same holds when the service returns at most one embedding per input.
ReportedIndicesValidWhenCounted ==
  Len(embeddings) <= n => ReportedIndicesValid

====
